---- MODULE Spec2Model ----
(***************************************************************************)
(* A model of pygconsole: the Console presentation stream with its cursor  *)
(* and viewport (console.py), the ECMA-48 decoder of RawIOConsole          *)
(* (io.py), the get_console registry and the surface double buffer.        *)
(*                                                                         *)
(* Stream indexes are Python indexes (0-based, negative ones counted from  *)
(* the end); a byte is an integer 0..255, a character its code point.      *)
(* An operation is an operator from a console record to a console record; *)
(* the field exc names the exception that left the last call ("none"      *)
(* when it returned), and the record holds the state the call left.        *)
(***************************************************************************)
EXTENDS Integers, Sequences, FiniteSets, TLC

(***************************************************************************)
(* Bounds of the model.                                                    *)
(***************************************************************************)
MaxBufLen == 2
MaxEscLen == 4
MaxCursor == 6
MaxPending == 2
MaxWindow == 6
MaxText == 5
MaxDecoderCursor == 2
MaxScroll == 3
MaxRenders == 3
MaxSize == 2
MaxConsoleCursor == 4
MaxAssigned == 4
MaxPenCursor == 2
BufferSize == 3

(***************************************************************************)
(* Bytes.                                                                  *)
(***************************************************************************)
LF == 10
CR == 13
ESC == 27
CSI == 91

Range(lo, hi) == lo..hi
CTRL_RANGE == Range(0, 31)
SUPPORTED_C0_CTRL == {<<LF, "LF">>, <<CR, "CR">>, <<ESC, "ESC">>}
Fe_RANGE == Range(64, 95)
SUPPORTED_C1_CTRL == {<<CSI, "CSI">>}
FINAL_RANGE == Range(64, 126)
SUPPORTED_FINAL_CTRL == {<<74, "ED">>, <<83, "SU">>, <<84, "SD">>, <<109, "SGR">>}
SEPARATORS == <<59, 58>>

InTable(table, key) == \E e \in table : e[1] = key
Lookup(table, key) == (CHOOSE e \in table : e[1] = key)[2]

\* The decimal digits of a table key, as the bytes of its string.
Key1(a) == <<48 + a>>
Key2(a, b) == <<48 + a, 48 + b>>
Key3(a, b, c) == <<48 + a, 48 + b, 48 + c>>

SUPPORTED_SGR_PARAMETERS ==
    { <<Key1(0), "reset">>, <<Key1(1), "bold">>, <<Key1(3), "italic">>,
      <<Key1(4), "underline">>, <<Key1(7), "negative">>,
      <<Key2(2, 2), "not_bold">>, <<Key2(2, 3), "not_italic">>,
      <<Key2(2, 4), "not_underline">>, <<Key2(2, 7), "positive">> }

ColourNames ==
    <<"black", "red", "green", "yellow", "blue", "magenta", "cyan", "white">>

STANDARD_FOREGROUND_COLOURS ==
    { <<Key2(3, i), ColourNames[i + 1]>> : i \in 0..7 }
    \cup { <<Key2(9, i), "bright_" \o ColourNames[i + 1]>> : i \in 0..7 }

STANDARD_BACKGROUND_COLOURS ==
    { <<Key2(4, i), ColourNames[i + 1]>> : i \in 0..7 }
    \cup { <<Key3(1, 0, i), "bright_" \o ColourNames[i + 1]>> : i \in 0..7 }

(***************************************************************************)
(* Colours.                                                                *)
(***************************************************************************)
DEFAULT_ALPHA == 255
DEFAULT_FOREGROUND_COLOUR == <<255, 255, 255, DEFAULT_ALPHA>>
DEFAULT_BACKGROUND_COLOUR == <<0, 0, 0, DEFAULT_ALPHA>>
DEFAULT_CHAR_MEMORY_SIZE == 80 * 24 * 10

STANDARD_COLOURS ==
    { <<"black", <<0, 0, 0, DEFAULT_ALPHA>> >>,
      <<"red", <<170, 0, 0, DEFAULT_ALPHA>> >>,
      <<"green", <<0, 170, 0, DEFAULT_ALPHA>> >>,
      <<"yellow", <<170, 85, 0, DEFAULT_ALPHA>> >>,
      <<"blue", <<0, 0, 170, DEFAULT_ALPHA>> >>,
      <<"magenta", <<170, 0, 170, DEFAULT_ALPHA>> >>,
      <<"cyan", <<0, 170, 170, DEFAULT_ALPHA>> >>,
      <<"white", <<170, 170, 170, DEFAULT_ALPHA>> >>,
      <<"bright_black", <<85, 85, 85, DEFAULT_ALPHA>> >>,
      <<"bright_red", <<255, 85, 85, DEFAULT_ALPHA>> >>,
      <<"bright_green", <<85, 255, 85, DEFAULT_ALPHA>> >>,
      <<"bright_yellow", <<255, 255, 85, DEFAULT_ALPHA>> >>,
      <<"bright_blue", <<85, 85, 255, DEFAULT_ALPHA>> >>,
      <<"bright_magenta", <<255, 85, 255, DEFAULT_ALPHA>> >>,
      <<"bright_cyan", <<85, 255, 255, DEFAULT_ALPHA>> >>,
      <<"bright_white", <<255, 255, 255, DEFAULT_ALPHA>> >> }

\* namedtuple._replace(alpha = a)
ReplaceAlpha(colour, a) == <<colour[1], colour[2], colour[3], a>>

(***************************************************************************)
(* The presentation stream: a deque with maxlen = memory_size.             *)
(***************************************************************************)
NoneCell == [empty |-> TRUE]

\* deque.extend([None] * n) on a deque of maxlen: the oldest items fall off.
DequeExtend(s, n, maxlen) ==
    LET t == s \o [k \in 1..n |-> NoneCell]
    IN  IF Len(t) > maxlen THEN SubSeq(t, Len(t) - maxlen + 1, Len(t)) ELSE t

\* deque([None] * n, maxlen)
NewStream(n, maxlen) == DequeExtend(<<>>, n, maxlen)

\* Whether deque[i] exists: Python takes -len <= i < len.
InRange(s, i) == -Len(s) <= i /\ i < Len(s)

Pos(s, i) == IF i >= 0 THEN i + 1 ELSE Len(s) + i + 1

GetItem(s, i) == s[Pos(s, i)]

SetItem(s, i, v) == [s EXCEPT ![Pos(s, i)] = v]

Ok(c) == c.exc = "none"

Raise(c, e) == [c EXCEPT !.exc = e]


\* F(v), v being evaluated once.
Let(v, F(_)) == CHOOSE r \in { F(x) : x \in {v} } : TRUE

\* The statement F after c, skipped when an exception is propagating.
Then(c, F(_)) == CHOOSE r \in { IF Ok(x) THEN F(x) ELSE x : x \in {c} } : TRUE

(***************************************************************************)
(* Console: rendering. Only what decides whether a render raises is kept:  *)
(* the read of every rendered cell and the destination of every blit.      *)
(***************************************************************************)
\* None when the index is outside the rendered window, else <<column, row>>.
chartopixcoord(c, index_char) ==
    IF index_char < c.start_window \/ index_char > c.end_window
    THEN <<>>
    ELSE << (index_char - c.start_window) % c.width,
            (index_char - c.start_window) \div c.width >>

\* Surface.blit / Surface.blits take a pair of numbers as destination and
\* raise TypeError on None.
BlitError(c, indexes) ==
    IF \E i \in indexes : chartopixcoord(c, i) = <<>> THEN "TypeError" ELSE "none"

render_char(c, index) ==
    IF ~InRange(c.presentation_stream, index) THEN Raise(c, "IndexError")
    ELSE Raise(c, BlitError(c, {index}))

render_chars(c, list_of_indexes) ==
    IF \E i \in list_of_indexes : ~InRange(c.presentation_stream, i)
    THEN Raise(c, "IndexError")
    ELSE Raise(c, BlitError(c, list_of_indexes))

render_all(c) ==
    IF \E i \in c.start_window..c.end_window : ~InRange(c.presentation_stream, i)
    THEN Raise(c, "IndexError")
    ELSE c

(***************************************************************************)
(* Console: construction and the setters.                                  *)
(***************************************************************************)
\* Console.__init__ and _init_console, for the fields the model keeps.
init_console(width, height, font_transparency, background_transparency) ==
    [ width |-> width,
      height |-> height,
      font_transparency |-> font_transparency,
      background_transparency |-> background_transparency,
      italic |-> FALSE,
      bold |-> FALSE,
      underline |-> FALSE,
      foreground_colour |-> ReplaceAlpha(DEFAULT_FOREGROUND_COLOUR, font_transparency),
      background_colour |-> ReplaceAlpha(DEFAULT_BACKGROUND_COLOUR, background_transparency),
      char_memory_size |-> DEFAULT_CHAR_MEMORY_SIZE,
      presentation_stream |-> NewStream(width * height, DEFAULT_CHAR_MEMORY_SIZE),
      cursor |-> 0,
      start_window |-> 0,
      end_window |-> width * height - 1,
      byte_esc_seq |-> <<>>,
      byte_displaying_char |-> <<>>,
      exc |-> "none",
      ret |-> -1 ]

\* "Console re-init" of the memory_size, width and height setters and of clear().
reinit(c) ==
    [c EXCEPT !.presentation_stream = NewStream(c.width * c.height, c.char_memory_size),
              !.cursor = 0,
              !.start_window = 0,
              !.end_window = c.width * c.height - 1]

set_memory_size(c, value) ==
    IF value >= c.width * c.height
    THEN reinit([c EXCEPT !.char_memory_size = value])
    ELSE c

set_width(c, value) ==
    IF value > 0 THEN reinit([c EXCEPT !.width = value]) ELSE c

set_height(c, value) ==
    IF value > 0 THEN reinit([c EXCEPT !.height = value]) ELSE c

Clamp255(v) == IF v > 255 THEN 255 ELSE IF v < 0 THEN 0 ELSE v

\* set_font_transparency, the stream re-initialised as the size setters do.
set_font_transparency_reinit(c, value) ==
    render_all(reinit([c EXCEPT !.font_transparency = Clamp255(value)]))

set_font_transparency(c, value) ==
    render_all([c EXCEPT !.font_transparency = Clamp255(value)])

set_background_transparency(c, value) ==
    render_all([c EXCEPT !.background_transparency = Clamp255(value)])

IsByteValue(v) == -1 < v /\ v < 256

\* A value given to a colour setter: a str, a sequence (v, where strs are the
\* positions of the components that are a str and not the number in v), or
\* an object without len(), a number or None.
StrValue(name) == [kind |-> "str", name |-> name]
MixedValue(v, strs) == [kind |-> "seq", v |-> v, strs |-> strs]
SeqValue(v) == MixedValue(v, {})
OtherValue == [kind |-> "other"]

\* -1 < value[0] < 256 and ... and -1 < value[n-1] < 256, from left to right:
\* "True", "False", or "TypeError" when a str is compared with -1 first.
ComponentsTest(value, n) ==
    LET bad == { k \in 1..n : k \in value.strs \/ ~IsByteValue(value.v[k]) }
    IN  IF bad = {} THEN "True"
        ELSE IF (CHOOSE k \in bad : \A j \in bad : k <= j) \in value.strs
        THEN "TypeError"
        ELSE "False"

\* The foreground_colour setter, a 3-tuple made opaque whatever the stored
\* transparency.
set_foreground_colour_opaque(c, value) ==
    IF value.kind = "str"
    THEN IF InTable(STANDARD_COLOURS, value.name)
         THEN [c EXCEPT !.foreground_colour =
                  ReplaceAlpha(Lookup(STANDARD_COLOURS, value.name), c.font_transparency)]
         ELSE IF value.name = "default"
         THEN [c EXCEPT !.foreground_colour =
                  ReplaceAlpha(DEFAULT_FOREGROUND_COLOUR, c.font_transparency)]
         ELSE c
    ELSE IF value.kind = "other" THEN Raise(c, "TypeError")
    ELSE IF Len(value.v) = 4
    THEN Let(ComponentsTest(value, 4),
             LAMBDA test :
                 IF test = "True"
                 THEN set_font_transparency([c EXCEPT !.foreground_colour = value.v],
                                            value.v[4])
                 ELSE IF test = "TypeError" THEN Raise(c, "TypeError")
                 ELSE c)
    ELSE IF Len(value.v) = 3
    THEN Let(ComponentsTest(value, 3),
             LAMBDA test :
                 IF test = "True"
                 THEN [c EXCEPT !.foreground_colour = Append(value.v, DEFAULT_ALPHA)]
                 ELSE IF test = "TypeError" THEN Raise(c, "TypeError")
                 ELSE c)
    ELSE c

set_foreground_colour(c, value) ==
    IF value.kind = "str"
    THEN IF InTable(STANDARD_COLOURS, value.name)
         THEN [c EXCEPT !.foreground_colour =
                  ReplaceAlpha(Lookup(STANDARD_COLOURS, value.name), c.font_transparency)]
         ELSE IF value.name = "default"
         THEN [c EXCEPT !.foreground_colour =
                  ReplaceAlpha(DEFAULT_FOREGROUND_COLOUR, c.font_transparency)]
         ELSE c
    ELSE IF value.kind = "other" THEN Raise(c, "TypeError")
    ELSE IF Len(value.v) = 4
    THEN Let(ComponentsTest(value, 4),
             LAMBDA test :
                 IF test = "True"
                 THEN set_font_transparency([c EXCEPT !.foreground_colour = value.v],
                                            value.v[4])
                 ELSE IF test = "TypeError" THEN Raise(c, "TypeError")
                 ELSE c)
    ELSE IF Len(value.v) = 3
    THEN Let(ComponentsTest(value, 3),
             LAMBDA test :
                 IF test = "True"
                 THEN [c EXCEPT !.foreground_colour = Append(value.v, c.font_transparency)]
                 ELSE IF test = "TypeError" THEN Raise(c, "TypeError")
                 ELSE c)
    ELSE c

set_background_colour(c, value) ==
    IF value.kind = "str"
    THEN IF InTable(STANDARD_COLOURS, value.name)
         THEN [c EXCEPT !.background_colour =
                  ReplaceAlpha(Lookup(STANDARD_COLOURS, value.name), c.background_transparency)]
         ELSE IF value.name = "default"
         THEN [c EXCEPT !.background_colour =
                  ReplaceAlpha(DEFAULT_BACKGROUND_COLOUR, c.background_transparency)]
         ELSE c
    ELSE IF value.kind = "other" THEN Raise(c, "TypeError")
    ELSE IF Len(value.v) = 4
    THEN Let(ComponentsTest(value, 4),
             LAMBDA test :
                 IF test = "True"
                 THEN set_background_transparency([c EXCEPT !.background_colour = value.v],
                                                  value.v[4])
                 ELSE IF test = "TypeError" THEN Raise(c, "TypeError")
                 ELSE c)
    ELSE IF Len(value.v) = 3
    THEN Let(ComponentsTest(value, 3),
             LAMBDA test :
                 IF test = "True"
                 THEN [c EXCEPT !.background_colour =
                          Append(value.v, c.background_transparency)]
                 ELSE IF test = "TypeError" THEN Raise(c, "TypeError")
                 ELSE c)
    ELSE c


(***************************************************************************)
(* Console: add_char, clear, scroll, carriage_return, line_field.          *)
(***************************************************************************)
\* CharArgs filled from the current attributes.
CharArgs(c, char) ==
    [ str |-> char,
      foreground_colour |-> c.foreground_colour,
      background_colour |-> c.background_colour,
      italic |-> c.italic,
      bold |-> c.bold,
      underline |-> c.underline ]

NeedsNewLine(c) == c.cursor >= Len(c.presentation_stream)

\* add_line, only the end of the rendered window moved.
add_line_end_only(c) ==
    IF NeedsNewLine(c)
    THEN [c EXCEPT !.presentation_stream =
                       DequeExtend(c.presentation_stream, c.width, c.char_memory_size),
                   !.end_window = c.end_window + c.width]
    ELSE c

\* "Adding a new line in the presentation stream if needed": one row, and the
\* rendered window moves by one row.
add_line(c) ==
    IF NeedsNewLine(c)
    THEN [c EXCEPT !.presentation_stream =
                       DequeExtend(c.presentation_stream, c.width, c.char_memory_size),
                   !.start_window = c.start_window + c.width,
                   !.end_window = c.end_window + c.width]
    ELSE c

\* self._presentation_stream[self._cursor] = char_args
store_char(c, char) ==
    IF ~InRange(c.presentation_stream, c.cursor) THEN Raise(c, "IndexError")
    ELSE [c EXCEPT !.presentation_stream =
                       SetItem(c.presentation_stream, c.cursor, CharArgs(c, char))]

advance_cursor(c) == [c EXCEPT !.cursor = c.cursor + 1]

\* add_char, len(char) == 1: the render comes before the cursor moves.
add_single_char(c, char) ==
    Then(Then(Let(add_line(c), LAMBDA c0 : store_char(c0, char)),
              LAMBDA c1 : IF NeedsNewLine(c) THEN render_all(c1)
                          ELSE render_char(c1, c1.cursor)),
         advance_cursor)

\* add_char, len(char) > 1: the loop over the characters from the i-th on;
\* acc is <<console, render_all, list_of_indexes>>.
RECURSIVE add_chars_loop(_, _, _)
add_chars_loop(acc, char, i) ==
    IF i > Len(char) \/ ~Ok(acc[1]) THEN acc
    ELSE Let(<< Then(Let(add_line(acc[1]), LAMBDA c0 : store_char(c0, char[i])),
                     advance_cursor),
                acc[2] \/ NeedsNewLine(acc[1]),
                acc[3] \cup {acc[1].cursor} >>,
             LAMBDA next : add_chars_loop(next, char, i + 1))

add_several_chars(c, char) ==
    Let(add_chars_loop(<<c, FALSE, {}>>, char, 1),
        LAMBDA acc : IF ~Ok(acc[1]) THEN acc[1]
                     ELSE IF acc[2] THEN render_all(acc[1])
                     ELSE render_chars(acc[1], acc[3]))

add_char(c, char) ==
    IF Len(char) = 0 THEN c
    ELSE IF Len(char) = 1 THEN add_single_char(c, char[1])
    ELSE add_several_chars(c, char)

\* for index_char in range(first, stop): self._presentation_stream[index_char] = None
RECURSIVE clear_range(_, _, _)
clear_range(c, first, stop) ==
    IF first >= stop THEN c
    ELSE IF ~InRange(c.presentation_stream, first) THEN Raise(c, "IndexError")
    ELSE Let([c EXCEPT !.presentation_stream = SetItem(c.presentation_stream, first, NoneCell)],
             LAMBDA c1 : clear_range(c1, first + 1, stop))

clear(c, mode) ==
    Then(IF mode = "before" THEN clear_range(c, c.start_window, c.cursor)
         ELSE IF mode = "after" THEN clear_range(c, c.cursor, c.end_window + 1)
         ELSE IF mode = "all_without_memory"
         THEN clear_range(c, c.start_window, c.end_window + 1)
         ELSE reinit(c),
         render_all)

\* scroll, the cursor carried along with the window.
scroll_moving_cursor(c, nb_lines, up) ==
    Let(IF up
        THEN LET sw == IF c.start_window - c.width * nb_lines < 0 THEN 0
                       ELSE c.start_window - c.width * nb_lines
             IN  [c EXCEPT !.start_window = sw,
                           !.end_window = sw + c.width * c.height - 1,
                           !.cursor = c.cursor + sw - c.start_window]
        ELSE LET ew == IF c.end_window + c.width * nb_lines > Len(c.presentation_stream)
                       THEN Len(c.presentation_stream) - 1
                       ELSE c.end_window + c.width * nb_lines
             IN  [c EXCEPT !.end_window = ew,
                           !.start_window = ew - c.width * c.height + 1,
                           !.cursor = c.cursor + ew - c.end_window],
        render_all)

\* scroll, the window scrolled down starting one cell too early.
scroll_start_one_early(c, nb_lines, up) ==
    Let(IF up
        THEN LET sw == IF c.start_window - c.width * nb_lines < 0 THEN 0
                       ELSE c.start_window - c.width * nb_lines
             IN  [c EXCEPT !.start_window = sw,
                           !.end_window = sw + c.width * c.height - 1]
        ELSE LET ew == IF c.end_window + c.width * nb_lines > Len(c.presentation_stream)
                       THEN Len(c.presentation_stream) - 1
                       ELSE c.end_window + c.width * nb_lines
             IN  [c EXCEPT !.end_window = ew,
                           !.start_window = ew - c.width * c.height],
        render_all)

scroll(c, nb_lines, up) ==
    Let(IF up
        THEN LET sw == IF c.start_window - c.width * nb_lines < 0 THEN 0
                       ELSE c.start_window - c.width * nb_lines
             IN  [c EXCEPT !.start_window = sw,
                           !.end_window = sw + c.width * c.height - 1]
        ELSE LET ew == IF c.end_window + c.width * nb_lines > Len(c.presentation_stream)
                       THEN Len(c.presentation_stream) - 1
                       ELSE c.end_window + c.width * nb_lines
             IN  [c EXCEPT !.end_window = ew,
                           !.start_window = ew - c.width * c.height + 1],
        render_all)

\* carriage_return, the cursor sent to the first cell of the stream.
carriage_return_to_origin(c) == [c EXCEPT !.cursor = 0]

carriage_return(c) == [c EXCEPT !.cursor = (c.cursor \div c.width) * c.width]

\* line_field, the cursor taken one row up.
line_field_upwards(c) == [c EXCEPT !.cursor = c.cursor - c.width]

line_field(c) == [c EXCEPT !.cursor = c.cursor + c.width]

(***************************************************************************)
(* UTF-8, as codecs.decode(..., 'utf-8', 'strict') reads it.               *)
(***************************************************************************)
IsCont(b, lo, hi) == lo <= b /\ b <= hi

\* The bounds of the byte that may follow lead byte b (the well-formed table).
SecondLo(b) == IF b = 224 THEN 160 ELSE IF b = 240 THEN 144 ELSE 128
SecondHi(b) == IF b = 237 THEN 159 ELSE IF b = 244 THEN 143 ELSE 191

\* The number of bytes the lead byte announces, 0 for a byte that starts nothing.
LeadLen(b) ==
    IF b < 128 THEN 1
    ELSE IF 194 <= b /\ b <= 223 THEN 2
    ELSE IF 224 <= b /\ b <= 239 THEN 3
    ELSE IF 240 <= b /\ b <= 244 THEN 4
    ELSE 0

\* The length of the character that starts at position i (1-based) of bytes,
\* 0 when the bytes there are invalid or end too early.
CharLenAt(bytes, i) ==
    LET n == LeadLen(bytes[i])
    IN  IF n = 0 \/ i + n - 1 > Len(bytes) THEN 0
        ELSE IF n = 1 THEN 1
        ELSE IF /\ IsCont(bytes[i + 1], SecondLo(bytes[i]), SecondHi(bytes[i]))
                /\ \A k \in (i + 2)..(i + n - 1) : IsCont(bytes[k], 128, 191)
        THEN n
        ELSE 0

\* UnicodeDecodeError.start, or len(bytes) when the decoding succeeds.
RECURSIVE Utf8ErrorStart(_, _)
Utf8ErrorStart(bytes, i) ==
    IF i > Len(bytes) THEN Len(bytes)
    ELSE Let(CharLenAt(bytes, i),
             LAMBDA n : IF n = 0 THEN i - 1 ELSE Utf8ErrorStart(bytes, i + n))

Utf8Valid(bytes) == Utf8ErrorStart(bytes, 1) = Len(bytes)

CodePoint(bytes, i, n) ==
    IF n = 1 THEN bytes[i]
    ELSE IF n = 2 THEN (bytes[i] - 192) * 64 + (bytes[i + 1] - 128)
    ELSE IF n = 3
    THEN (bytes[i] - 224) * 4096 + (bytes[i + 1] - 128) * 64 + (bytes[i + 2] - 128)
    ELSE (bytes[i] - 240) * 262144 + (bytes[i + 1] - 128) * 4096
             + (bytes[i + 2] - 128) * 64 + (bytes[i + 3] - 128)

\* bytes.decode(encoding='utf-8') of valid bytes: the code points from i on.
RECURSIVE Utf8Decode(_, _)
Utf8Decode(bytes, i) ==
    IF i > Len(bytes) THEN <<>>
    ELSE Let(CharLenAt(bytes, i),
             LAMBDA n : <<CodePoint(bytes, i, n)>> \o Utf8Decode(bytes, i + n))

(***************************************************************************)
(* int(str) and str.split, for the parameter bytes of a control sequence.  *)
(***************************************************************************)
IsSpace(b) == b \in (9..13) \cup (28..32)
IsDigit(b) == 48 <= b /\ b <= 57

RECURSIVE LStrip(_)
LStrip(s) == IF Len(s) > 0 /\ IsSpace(s[1]) THEN LStrip(Tail(s)) ELSE s

RECURSIVE RStrip(_)
RStrip(s) ==
    IF Len(s) > 0 /\ IsSpace(s[Len(s)]) THEN RStrip(SubSeq(s, 1, Len(s) - 1)) ELSE s

RECURSIVE DigitsValue(_)
DigitsValue(s) ==
    IF Len(s) = 0 THEN 0
    ELSE DigitsValue(SubSeq(s, 1, Len(s) - 1)) * 10 + (s[Len(s)] - 48)

\* int(s): [ok |-> FALSE] stands for ValueError.
IntParse(s) ==
    Let(RStrip(LStrip(s)),
        LAMBDA t :
            LET signed == Len(t) > 0 /\ t[1] \in {43, 45}
                digits == IF signed THEN Tail(t) ELSE t
            IN  IF Len(digits) > 0 /\ \A k \in 1..Len(digits) : IsDigit(digits[k])
                THEN [ok |-> TRUE,
                      val |-> IF signed /\ t[1] = 45 THEN 0 - DigitsValue(digits)
                              ELSE DigitsValue(digits)]
                ELSE [ok |-> FALSE, val |-> 0])

\* s with every separator replaced by the first one.
ReplaceSeparators(s) ==
    [k \in 1..Len(s) |->
        IF \E j \in 1..Len(SEPARATORS) : s[k] = SEPARATORS[j] THEN SEPARATORS[1] ELSE s[k]]

\* s.split(sep): one more item than there are separators ("" gives [""]).
RECURSIVE Split(_, _)
Split(s, sep) ==
    IF \A k \in 1..Len(s) : s[k] # sep THEN <<s>>
    ELSE LET first == CHOOSE k \in 1..Len(s) :
                          s[k] = sep /\ \A j \in 1..(k - 1) : s[j] # sep
         IN  <<SubSeq(s, 1, first - 1)>> \o Split(SubSeq(s, first + 1, Len(s)), sep)

(***************************************************************************)
(* RawIOConsole._esc_seq_decode.                                           *)
(***************************************************************************)
set_bold(c, value) == [c EXCEPT !.bold = value]
set_italic(c, value) == [c EXCEPT !.italic = value]
set_underline(c, value) == [c EXCEPT !.underline = value]

\* temp_colour = foreground_colour; foreground_colour = background_colour;
\* background_colour = temp_colour
swap_colours(c) ==
    LET temp_colour == c.foreground_colour
    IN  Then(set_foreground_colour(c, SeqValue(c.background_colour)),
             LAMBDA c1 : set_background_colour(c1, SeqValue(temp_colour)))

sgr_reset(c) ==
    Then(set_foreground_colour(set_underline(set_italic(set_bold(c, FALSE), FALSE), FALSE),
                               StrValue("default")),
         LAMBDA c1 : set_background_colour(c1, StrValue("default")))

\* One parameter of a Select Graphic Rendition sequence.
sgr_param(c, param) ==
    IF InTable(SUPPORTED_SGR_PARAMETERS, param)
    THEN LET name == Lookup(SUPPORTED_SGR_PARAMETERS, param)
         IN  IF name = "reset" THEN sgr_reset(c)
             ELSE IF name = "bold" THEN set_bold(c, TRUE)
             ELSE IF name = "italic" THEN set_italic(c, TRUE)
             ELSE IF name = "underline" THEN set_underline(c, TRUE)
             ELSE IF name = "negative" THEN swap_colours(c)
             ELSE IF name = "not_bold" THEN set_bold(c, FALSE)
             ELSE IF name = "not_italic" THEN set_italic(c, FALSE)
             ELSE IF name = "not_underline" THEN set_underline(c, FALSE)
             ELSE IF name = "positive" THEN swap_colours(c)
             ELSE c
    ELSE IF InTable(STANDARD_FOREGROUND_COLOURS, param)
    THEN set_foreground_colour(c, StrValue(Lookup(STANDARD_FOREGROUND_COLOURS, param)))
    ELSE IF InTable(STANDARD_BACKGROUND_COLOURS, param)
    THEN set_background_colour(c, StrValue(Lookup(STANDARD_BACKGROUND_COLOURS, param)))
    ELSE c

\* The parameters of a Select Graphic Rendition sequence, the loop left at
\* the first parameter that is in none of the tables.
RECURSIVE sgr_params_until_unknown(_, _, _)
sgr_params_until_unknown(c, seq_list, i) ==
    IF i > Len(seq_list) \/ ~Ok(c) THEN c
    ELSE IF /\ ~InTable(SUPPORTED_SGR_PARAMETERS, seq_list[i])
            /\ ~InTable(STANDARD_FOREGROUND_COLOURS, seq_list[i])
            /\ ~InTable(STANDARD_BACKGROUND_COLOURS, seq_list[i])
    THEN c
    ELSE Let(sgr_param(c, seq_list[i]),
             LAMBDA c1 : sgr_params_until_unknown(c1, seq_list, i + 1))

RECURSIVE sgr_params(_, _, _)
sgr_params(c, seq_list, i) ==
    IF i > Len(seq_list) \/ ~Ok(c) THEN c
    ELSE Let(sgr_param(c, seq_list[i]), LAMBDA c1 : sgr_params(c1, seq_list, i + 1))

\* The list of parameters of a Select Graphic Rendition sequence.
sgr_list(parameters) ==
    Let(Split(ReplaceSeparators(parameters), SEPARATORS[1]),
        LAMBDA seq_list : IF Len(seq_list) = 0 THEN <<Key1(0)>> ELSE seq_list)

\* int(parameters), default when ValueError is raised.
IntOrDefault(parameters, default) ==
    Let(IntParse(parameters), LAMBDA parsed : IF parsed.ok THEN parsed.val ELSE default)

\* Erase in Display, mode 2 taken for mode 3.
erase_in_display_2_as_3(c, parameters) ==
    Let(IntOrDefault(parameters, 3),
        LAMBDA mode :
            IF mode = 0 THEN <<clear(c, "after"), "successful">>
            ELSE IF mode = 1 THEN <<clear(c, "before"), "successful">>
            ELSE IF mode = 2 THEN <<clear(c, "all"), "successful">>
            ELSE IF mode = 3 THEN <<clear(c, "all"), "successful">>
            ELSE <<c, "error">>)

\* Erase in Display: <<console, result>>.
erase_in_display(c, parameters) ==
    Let(IntOrDefault(parameters, 3),
        LAMBDA mode :
            IF mode = 0 THEN <<clear(c, "after"), "successful">>
            ELSE IF mode = 1 THEN <<clear(c, "before"), "successful">>
            ELSE IF mode = 2 THEN <<clear(c, "all_without_memory"), "successful">>
            ELSE IF mode = 3 THEN <<clear(c, "all"), "successful">>
            ELSE <<c, "error">>)

\* control_sequence, Scroll Up and Scroll Down taken for each other.
control_sequence_su_as_sd(c, parameters, final) ==
    IF InTable(SUPPORTED_FINAL_CTRL, final)
    THEN LET function == Lookup(SUPPORTED_FINAL_CTRL, final)
         IN  IF function = "ED" THEN erase_in_display(c, parameters)
             ELSE IF function = "SU"
             THEN Let(IntOrDefault(parameters, 1),
                      LAMBDA nb_lines : <<scroll(c, nb_lines, FALSE), "successful">>)
             ELSE IF function = "SD"
             THEN Let(IntOrDefault(parameters, 1),
                      LAMBDA nb_lines : <<scroll(c, nb_lines, TRUE), "successful">>)
             ELSE IF function = "SGR"
             THEN Let(sgr_list(parameters),
                      LAMBDA seq_list : <<sgr_params(c, seq_list, 1), "successful">>)
             ELSE <<c, "error">>
    ELSE <<c, "error">>

\* The control sequence ESC [ parameters final: <<console, result>>.
control_sequence(c, parameters, final) ==
    IF InTable(SUPPORTED_FINAL_CTRL, final)
    THEN LET function == Lookup(SUPPORTED_FINAL_CTRL, final)
         IN  IF function = "ED" THEN erase_in_display(c, parameters)
             ELSE IF function = "SU"
             THEN Let(IntOrDefault(parameters, 1),
                      LAMBDA nb_lines : <<scroll(c, nb_lines, TRUE), "successful">>)
             ELSE IF function = "SD"
             THEN Let(IntOrDefault(parameters, 1),
                      LAMBDA nb_lines : <<scroll(c, nb_lines, FALSE), "successful">>)
             ELSE IF function = "SGR"
             THEN Let(sgr_list(parameters),
                      LAMBDA seq_list : <<sgr_params(c, seq_list, 1), "successful">>)
             ELSE <<c, "error">>
    ELSE <<c, "error">>

\* _esc_seq_decode(sequence): <<console, 'successful' | 'error' | 'incomplete'>>.
esc_seq_decode(c, sequence) ==
    IF Len(sequence) = 0 THEN <<c, "incomplete">>
    ELSE IF sequence[1] \notin CTRL_RANGE THEN <<c, "error">>
    ELSE IF ~InTable(SUPPORTED_C0_CTRL, sequence[1]) THEN <<c, "error">>
    ELSE IF Lookup(SUPPORTED_C0_CTRL, sequence[1]) = "ESC"
    THEN IF Len(sequence) <= 1 THEN <<c, "incomplete">>
         ELSE IF sequence[2] \notin Fe_RANGE THEN <<c, "error">>
         ELSE IF ~InTable(SUPPORTED_C1_CTRL, sequence[2]) THEN <<c, "error">>
         ELSE IF Lookup(SUPPORTED_C1_CTRL, sequence[2]) # "CSI" THEN <<c, "error">>
         ELSE IF Len(sequence) <= 2 THEN <<c, "incomplete">>
         ELSE IF sequence[Len(sequence)] \notin FINAL_RANGE THEN <<c, "incomplete">>
         ELSE control_sequence(c, SubSeq(sequence, 3, Len(sequence) - 1),
                               sequence[Len(sequence)])
    ELSE IF Lookup(SUPPORTED_C0_CTRL, sequence[1]) = "LF"
    THEN <<line_field(c), "successful">>
    ELSE IF Lookup(SUPPORTED_C0_CTRL, sequence[1]) = "CR"
    THEN <<carriage_return(c), "successful">>
    ELSE <<c, "error">>

(***************************************************************************)
(* RawIOConsole.write.                                                     *)
(***************************************************************************)
\* self._byte_esc_seq.append(byte), the decoding of the sequence, and its
\* reset unless it is incomplete (or an exception leaves the method).
escape_byte(c, byte) ==
    Let([c EXCEPT !.byte_esc_seq = Append(c.byte_esc_seq, byte)],
        LAMBDA c1 :
            Let(esc_seq_decode(c1, c1.byte_esc_seq),
                LAMBDA decoded_esc_seq :
                    IF ~Ok(decoded_esc_seq[1]) THEN decoded_esc_seq[1]
                    ELSE IF decoded_esc_seq[2] = "incomplete" THEN decoded_esc_seq[1]
                    ELSE [decoded_esc_seq[1] EXCEPT !.byte_esc_seq = <<>>]))

\* console.add_char(self._byte_displaying_char.decode(encoding='utf-8')) and
\* the reset of the buffer, when the buffer is not empty.
flush_displaying_char(c) ==
    IF Len(c.byte_displaying_char) = 0 THEN c
    ELSE IF ~Utf8Valid(c.byte_displaying_char) THEN Raise(c, "UnicodeDecodeError")
    ELSE Let(Utf8Decode(c.byte_displaying_char, 1),
             LAMBDA char : Then(add_char(c, char),
                                LAMBDA c1 : [c1 EXCEPT !.byte_displaying_char = <<>>]))

\* The body of the loop, a byte of the control range starting a sequence of
\* its own whatever sequence was being read.
write_byte_restarting(c, byte) ==
    IF byte \in CTRL_RANGE
    THEN Then(flush_displaying_char(c),
              LAMBDA c1 : escape_byte([c1 EXCEPT !.byte_esc_seq = <<>>], byte))
    ELSE IF Len(c.byte_esc_seq) > 0 THEN escape_byte(c, byte)
    ELSE [c EXCEPT !.byte_displaying_char = Append(c.byte_displaying_char, byte)]

\* The body of the loop, the text read so far written after the control
\* byte has had its effect and not before.
write_byte_flushing_late(c, byte) ==
    IF Len(c.byte_esc_seq) > 0 THEN escape_byte(c, byte)
    ELSE IF byte \in CTRL_RANGE
    THEN Then(escape_byte(c, byte), flush_displaying_char)
    ELSE [c EXCEPT !.byte_displaying_char = Append(c.byte_displaying_char, byte)]

\* The body of "for byte in byte_sequence".
write_byte(c, byte) ==
    IF Len(c.byte_esc_seq) > 0 THEN escape_byte(c, byte)
    ELSE IF byte \in CTRL_RANGE
    THEN Then(flush_displaying_char(c), LAMBDA c1 : escape_byte(c1, byte))
    ELSE [c EXCEPT !.byte_displaying_char = Append(c.byte_displaying_char, byte)]

RECURSIVE write_bytes(_, _, _)
write_bytes(c, byte_sequence, i) ==
    IF i > Len(byte_sequence) \/ ~Ok(c) THEN c
    ELSE Let(write_byte(c, byte_sequence[i]),
             LAMBDA c1 : write_bytes(c1, byte_sequence, i + 1))

\* len(byte_sequence) after the utf-8 check.
nb_decoded_bytes(bytestream) == Utf8ErrorStart(bytestream, 1)

\* write, every byte of bytestream handled, those after the valid prefix too.
write_without_utf8_check(c, bytestream) ==
    Let(nb_decoded_bytes(bytestream),
        LAMBDA n :
            Let(Then(write_bytes([c EXCEPT !.exc = "none", !.ret = -1], bytestream, 1),
                     flush_displaying_char),
                LAMBDA c2 : IF Ok(c2) THEN [c2 EXCEPT !.ret = n] ELSE c2))

\* write(bytestream): ret is the value returned; when the call raises, exc
\* names the exception and nothing is returned.
write(c, bytestream) ==
    Let(nb_decoded_bytes(bytestream),
        LAMBDA n :
            Let(Then(write_bytes([c EXCEPT !.exc = "none", !.ret = -1],
                                 SubSeq(bytestream, 1, n), 1),
                     flush_displaying_char),
                LAMBDA c2 : IF Ok(c2) THEN [c2 EXCEPT !.ret = n] ELSE c2))

(***************************************************************************)
(* The state: one Console and the RawIOConsole that writes to it.          *)
(***************************************************************************)
VARIABLES width, height, char_memory_size, presentation_stream, cursor,
          start_window, end_window, foreground_colour, background_colour,
          italic, bold, underline, font_transparency, background_transparency,
          byte_esc_seq, byte_displaying_char,
          exc,        \* the exception that left the last call, "none" if it returned
          ret,        \* the value the last write returned, -1 if none
          last_call,  \* the method or setter that was called last
          write_buf   \* the bytes a BufferedIOConsole holds back from its raw stream

consoleVars ==
    << width, height, char_memory_size, presentation_stream, cursor,
       start_window, end_window, foreground_colour, background_colour,
       italic, bold, underline, font_transparency, background_transparency,
       byte_esc_seq, byte_displaying_char, exc, ret, last_call, write_buf >>

\* Console._instances and the threads that call Console.get_console.
VARIABLES instances,     \* name -> console, NoConsole when the name is not a key
          pc,            \* thread -> the statement it is about to run
          name,          \* thread -> the name it called get_console with
          self,          \* thread -> the console it is constructing
          nb_consoles,   \* the Console objects constructed so far
          initialised,   \* the consoles whose _init_console has completed
          registered,    \* every <<name, console>> ever put in _instances
          returned       \* every [name, console, initialised] get_console returned

registryVars ==
    << instances, pc, name, self, nb_consoles, initialised, registered, returned >>

\* The two surfaces of a console, the thread that renders and the thread of
\* the display loop that reads Console.surface.
VARIABLES update_surface_lock,   \* TRUE when the lock is held
          current_surface,       \* cell -> the render that drew it last
          previous_surface,
          surf_to_blit,          \* the images blits has still to draw
          nb_renders,
          render_pc,
          reader_pc,
          held,                  \* the surface the property returned
          observed               \* the pixels the display loop read last

surfaceVars ==
    << update_surface_lock, current_surface, previous_surface, surf_to_blit,
       nb_renders, render_pc, reader_pc, held, observed >>

vars == << consoleVars, registryVars, surfaceVars >>

\* The console and its decoder as one record.
Con ==
    [ width |-> width,
      height |-> height,
      font_transparency |-> font_transparency,
      background_transparency |-> background_transparency,
      italic |-> italic,
      bold |-> bold,
      underline |-> underline,
      foreground_colour |-> foreground_colour,
      background_colour |-> background_colour,
      char_memory_size |-> char_memory_size,
      presentation_stream |-> presentation_stream,
      cursor |-> cursor,
      start_window |-> start_window,
      end_window |-> end_window,
      byte_esc_seq |-> byte_esc_seq,
      byte_displaying_char |-> byte_displaying_char,
      exc |-> exc,
      ret |-> ret ]

\* The state is that of console c.
IsCon(c) ==
    /\ width = c.width
    /\ height = c.height
    /\ font_transparency = c.font_transparency
    /\ background_transparency = c.background_transparency
    /\ italic = c.italic
    /\ bold = c.bold
    /\ underline = c.underline
    /\ foreground_colour = c.foreground_colour
    /\ background_colour = c.background_colour
    /\ char_memory_size = c.char_memory_size
    /\ presentation_stream = c.presentation_stream
    /\ cursor = c.cursor
    /\ start_window = c.start_window
    /\ end_window = c.end_window
    /\ byte_esc_seq = c.byte_esc_seq
    /\ byte_displaying_char = c.byte_displaying_char
    /\ exc = c.exc
    /\ ret = c.ret

\* The next state is that of console c.
Becomes(c) ==
    /\ width' = c.width
    /\ height' = c.height
    /\ font_transparency' = c.font_transparency
    /\ background_transparency' = c.background_transparency
    /\ italic' = c.italic
    /\ bold' = c.bold
    /\ underline' = c.underline
    /\ foreground_colour' = c.foreground_colour
    /\ background_colour' = c.background_colour
    /\ char_memory_size' = c.char_memory_size
    /\ presentation_stream' = c.presentation_stream
    /\ cursor' = c.cursor
    /\ start_window' = c.start_window
    /\ end_window' = c.end_window
    /\ byte_esc_seq' = c.byte_esc_seq
    /\ byte_displaying_char' = c.byte_displaying_char
    /\ exc' = c.exc
    /\ ret' = c.ret

\* The sizes the model keeps a console within.
Bounded(c, max_cursor) ==
    /\ c.cursor <= max_cursor
    /\ Len(c.byte_esc_seq) <= MaxEscLen
    /\ Len(c.byte_displaying_char) <= MaxPending
    /\ -MaxWindow <= c.start_window /\ c.start_window <= MaxWindow

\* No exception has left a call: the callers of the repository catch none, so
\* the first one that escapes ends the program.
Running == exc = "none"

\* Console.get_console(name, width, height) for a new name, and a RawIOConsole on it.
InitDims(w, h) ==
    /\ \E c \in {init_console(w, h, DEFAULT_ALPHA, DEFAULT_ALPHA)} : IsCon(c)
    /\ last_call = "get_console"
    /\ write_buf = <<>>

\* RawIOConsole.write(bytestream)
Write(bytestream, max_cursor) ==
    /\ Running
    /\ \E c \in {write(Con, bytestream)} : Bounded(c, max_cursor) /\ Becomes(c)
    /\ last_call' = "write"
    /\ UNCHANGED << write_buf, registryVars, surfaceVars >>

\* console.memory_size = value
SetMemorySize(value) ==
    /\ Running
    /\ \E c \in {set_memory_size(Con, value)} :
           Becomes([c EXCEPT !.exc = "none", !.ret = -1])
    /\ last_call' = "memory_size"
    /\ UNCHANGED << write_buf, registryVars, surfaceVars >>

\* A method or setter of Console called by the program leaves console c.
Call(c, method) ==
    /\ Bounded(c, MaxConsoleCursor)
    /\ Becomes([c EXCEPT !.ret = -1])
    /\ last_call' = method
    /\ UNCHANGED << write_buf, registryVars, surfaceVars >>

\* console.add_char(char)
AddChar(char) ==
    /\ Running
    /\ \E c \in {add_char(Con, char)} : Call(c, "add_char")

\* console.clear(mode)
Clear(mode) ==
    /\ Running
    /\ \E c \in {clear(Con, mode)} : Call(c, "clear")

\* console.scroll(nb_lines, up)
Scroll(nb_lines, up) ==
    /\ Running
    /\ \E c \in {scroll(Con, nb_lines, up)} : Call(c, "scroll")

\* console.carriage_return()
CarriageReturn ==
    /\ Running
    /\ \E c \in {carriage_return(Con)} : Call(c, "carriage_return")

\* console.line_field()
LineField ==
    /\ Running
    /\ \E c \in {line_field(Con)} : Call(c, "line_field")

\* console.width = value
SetWidth(value) ==
    /\ Running
    /\ \E c \in {set_width(Con, value)} : Call(c, "width")

\* console.height = value
SetHeight(value) ==
    /\ Running
    /\ \E c \in {set_height(Con, value)} : Call(c, "height")

\* console.foreground_colour = value
SetForegroundColour(value) ==
    /\ Running
    /\ \E c \in {set_foreground_colour(Con, value)} : Call(c, "foreground_colour")

\* console.font_transparency = value
SetFontTransparency(value) ==
    /\ Running
    /\ \E c \in {set_font_transparency(Con, value)} : Call(c, "font_transparency")

\* console.background_colour = value
SetBackgroundColour(value) ==
    /\ Running
    /\ \E c \in {set_background_colour(Con, value)} : Call(c, "background_colour")

\* BufferedIOConsole and TextIOConsoleWrapper add nothing to io.BufferedWriter
\* and io.TextIOWrapper but their constructors: the raw stream is a
\* RawIOConsole, the encoding utf-8, and line_buffering and write_through are
\* passed on as given.  What the inherited write and flush do is Python's:
\* the text is encoded and handed to the buffer; the buffer keeps the bytes
\* until it holds more than buffer_size of them, or is flushed.

\* str.encode('utf-8'), for the code points below 2048.
RECURSIVE Utf8Encode(_)
Utf8Encode(text) ==
    IF Len(text) = 0 THEN <<>>
    ELSE (IF text[1] < 128 THEN <<text[1]>>
          ELSE <<192 + (text[1] \div 64), 128 + (text[1] % 64)>>)
         \o Utf8Encode(Tail(text))

\* BufferedWriter.flush: raw.write(buffer), the bytes it took leave the buffer.
\* <<console, buffer>>
buffered_flush(c, buf) ==
    IF Len(buf) = 0 THEN <<c, buf>>
    ELSE Let(write(c, buf),
             LAMBDA c1 : IF Ok(c1) THEN <<c1, SubSeq(buf, c1.ret + 1, Len(buf))>>
                         ELSE <<c1, buf>>)

\* BufferedWriter.write(b): <<console, buffer>>
buffered_write(c, buf, b) ==
    IF Len(buf) + Len(b) > BufferSize THEN buffered_flush(c, buf \o b)
    ELSE <<c, buf \o b>>

\* TextIOWrapper.write(text): <<console, buffer>>
text_write(c, buf, text, line_buffering, write_through) ==
    Let(buffered_write(c, buf, Utf8Encode(text)),
        LAMBDA r : IF Ok(r[1]) /\ (write_through \/
                                    (line_buffering /\ \E k \in 1..Len(text) : text[k] \in {LF, CR}))
                   THEN buffered_flush(r[1], r[2])
                   ELSE r)

\* print(text, end='', file=iotextstream), iotextstream being
\* TextIOConsoleWrapper(console_name) with its default parameters.
TextWrite(text) ==
    /\ Running
    /\ \E r \in {text_write(Con, write_buf, text, FALSE, FALSE)} :
           /\ Bounded(r[1], MaxConsoleCursor)
           /\ Becomes(r[1])
           /\ write_buf' = r[2]
    /\ last_call' = "TextIOConsoleWrapper.write"
    /\ UNCHANGED << registryVars, surfaceVars >>

\* iotextstream.flush()
TextFlush ==
    /\ Running
    /\ \E r \in {buffered_flush(Con, write_buf)} :
           /\ Bounded(r[1], MaxConsoleCursor)
           /\ Becomes(r[1])
           /\ write_buf' = r[2]
    /\ last_call' = "TextIOConsoleWrapper.flush"
    /\ UNCHANGED << registryVars, surfaceVars >>

\* BufferedIOConsole(console_name).write(b) with b shorter than the buffer:
\* the bytes are kept for the next flush.
BufferedWrite(b) ==
    /\ Running
    /\ write_buf = <<>>
    /\ write_buf' = b
    /\ last_call' = "BufferedIOConsole.write"
    /\ UNCHANGED << width, height, char_memory_size, presentation_stream, cursor,
                    start_window, end_window, foreground_colour, background_colour,
                    italic, bold, underline, font_transparency,
                    background_transparency, byte_esc_seq, byte_displaying_char,
                    exc, ret, registryVars, surfaceVars >>

\* One turn of the loop of BufferedWriter.flush, which ends when the buffer
\* is empty: n = raw.write(buffer), and the n first bytes leave the buffer.
FlushStep ==
    /\ Running
    /\ write_buf # <<>>
    /\ \E c \in {write(Con, write_buf)} :
           /\ Becomes(c)
           /\ write_buf' = IF Ok(c) THEN SubSeq(write_buf, c.ret + 1, Len(write_buf))
                           ELSE write_buf
    /\ last_call' = "BufferedIOConsole.flush"
    /\ UNCHANGED << registryVars, surfaceVars >>

(***************************************************************************)
(* Console.get_console called by several threads.  A thread may be         *)
(* switched between any two statements.                                    *)
(***************************************************************************)
Threads == {1, 2}
Names == {"pygconsole", "pygame_console"}
NoConsole == 0

InitInstances ==
    /\ instances = [n \in Names |-> NoConsole]
    /\ pc = [t \in Threads |-> "idle"]
    /\ name = [t \in Threads |-> "pygconsole"]
    /\ self = [t \in Threads |-> NoConsole]
    /\ nb_consoles = 0
    /\ initialised = {}
    /\ registered = {}
    /\ returned = {}

\* Thread t goes to statement p.
Goto(t, p) == pc' = [pc EXCEPT ![t] = p]

\* Console.get_console(name = n) is called by thread t.
GetConsole(t, n) ==
    /\ pc[t] = "idle"
    /\ name' = [name EXCEPT ![t] = n]
    /\ Goto(t, "outer_check")
    /\ UNCHANGED << instances, self, nb_consoles, initialised, registered, returned >>

\* if name not in Console._instances:
OuterCheck(t) ==
    /\ pc[t] = "outer_check"
    /\ Goto(t, IF instances[name[t]] = NoConsole THEN "inner_check" ELSE "return")
    /\ UNCHANGED << instances, name, self, nb_consoles, initialised, registered, returned >>

\* with threading.Lock(): a lock made by this call, which no other thread
\* holds, is acquired at once; then if name not in Console._instances: and
\* the construction of the Console object.
InnerCheck(t) ==
    /\ pc[t] = "inner_check"
    /\ IF instances[name[t]] = NoConsole
       THEN /\ nb_consoles' = nb_consoles + 1
            /\ self' = [self EXCEPT ![t] = nb_consoles + 1]
            /\ Goto(t, "init_check")
       ELSE /\ Goto(t, "return")
            /\ UNCHANGED << self, nb_consoles >>
    /\ UNCHANGED << instances, name, initialised, registered, returned >>

\* Console.__init__: if name not in Console._instances:
InitCheck(t) ==
    /\ pc[t] = "init_check"
    /\ Goto(t, IF instances[name[t]] = NoConsole THEN "register" ELSE "return")
    /\ UNCHANGED << instances, name, self, nb_consoles, initialised, registered, returned >>

\* Console._instances[name] = self
Register(t) ==
    /\ pc[t] = "register"
    /\ instances' = [instances EXCEPT ![name[t]] = self[t]]
    /\ registered' = registered \cup {<<name[t], self[t]>>}
    /\ Goto(t, "init_console")
    /\ UNCHANGED << name, self, nb_consoles, initialised, returned >>

\* The attributes are recorded and self._init_console() runs.
InitConsole(t) ==
    /\ pc[t] = "init_console"
    /\ initialised' = initialised \cup {self[t]}
    /\ Goto(t, "return")
    /\ UNCHANGED << instances, name, self, nb_consoles, registered, returned >>

\* return Console._instances[name]
Return(t) ==
    /\ pc[t] = "return"
    /\ returned' = returned \cup
           { [ name |-> name[t], console |-> instances[name[t]],
               initialised |-> instances[name[t]] \in initialised ] }
    /\ Goto(t, "idle")
    /\ UNCHANGED << instances, name, self, nb_consoles, initialised, registered >>

(***************************************************************************)
(* The surfaces: _render_all in one thread, the display loop in another.   *)
(***************************************************************************)
Cells == {1, 2}

\* _init_console: both surfaces are filled with the background.
InitSurfaces ==
    /\ update_surface_lock = FALSE
    /\ current_surface = [i \in Cells |-> 0]
    /\ previous_surface = [i \in Cells |-> 0]
    /\ surf_to_blit = <<>>
    /\ nb_renders = 0
    /\ render_pc = "idle"
    /\ reader_pc = "idle"
    /\ held = [current |-> FALSE, pixels |-> [i \in Cells |-> 0]]
    /\ observed = [i \in Cells |-> 0]

\* _render_all: the images of the window are listed and the lock is acquired.
RenderAcquire ==
    /\ render_pc = "idle"
    /\ nb_renders < MaxRenders
    /\ nb_renders' = nb_renders + 1
    /\ surf_to_blit' = [i \in 1..Cardinality(Cells) |-> <<i, nb_renders + 1>>]
    /\ update_surface_lock' = TRUE
    /\ render_pc' = "blits"
    /\ UNCHANGED << current_surface, previous_surface, reader_pc, held, observed >>

\* self._current_surface.blits(surf_to_blit): the next image is drawn onto
\* the surface, in place.
Blit ==
    /\ render_pc = "blits"
    /\ surf_to_blit # <<>>
    /\ current_surface' =
           [current_surface EXCEPT ![Head(surf_to_blit)[1]] = Head(surf_to_blit)[2]]
    /\ surf_to_blit' = Tail(surf_to_blit)
    /\ UNCHANGED << update_surface_lock, previous_surface, nb_renders, render_pc,
                    reader_pc, held, observed >>

\* The end of the with block.
RenderRelease ==
    /\ render_pc = "blits"
    /\ surf_to_blit = <<>>
    /\ update_surface_lock' = FALSE
    /\ render_pc' = "copy"
    /\ UNCHANGED << current_surface, previous_surface, surf_to_blit, nb_renders,
                    reader_pc, held, observed >>

\* self._previous_surface = self._current_surface.copy()
RenderCopy ==
    /\ render_pc = "copy"
    /\ previous_surface' = current_surface
    /\ render_pc' = "idle"
    /\ UNCHANGED << update_surface_lock, current_surface, surf_to_blit, nb_renders,
                    reader_pc, held, observed >>

\* Console.surface: if self._update_surface_lock.locked():
SurfaceLocked ==
    /\ reader_pc = "idle"
    /\ reader_pc' = IF update_surface_lock THEN "previous" ELSE "current"
    /\ UNCHANGED << update_surface_lock, current_surface, previous_surface,
                    surf_to_blit, nb_renders, render_pc, held, observed >>

\* return self._previous_surface, an object no render draws on, or
\* return self._current_surface, the object the renders draw on.
SurfaceReturn ==
    /\ reader_pc \in {"previous", "current"}
    /\ held' = IF reader_pc = "current"
               THEN [current |-> TRUE, pixels |-> current_surface]
               ELSE [current |-> FALSE, pixels |-> previous_surface]
    /\ reader_pc' = "use"
    /\ UNCHANGED << update_surface_lock, current_surface, previous_surface,
                    surf_to_blit, nb_renders, render_pc, observed >>

\* The display loop reads the surface the property returned.
ReadSurface ==
    /\ reader_pc = "use"
    /\ observed' = IF held.current THEN current_surface ELSE held.pixels
    /\ reader_pc' = "idle"
    /\ UNCHANGED << update_surface_lock, current_surface, previous_surface,
                    surf_to_blit, nb_renders, render_pc, held >>

(***************************************************************************)
(* Spec: text, LF and CR, scrolls and erasures written to a console whose  *)
(* memory size is set now and then.                                        *)
(***************************************************************************)
Seqs(S, n) == UNION { [1..k -> S] : k \in 1..n }

CsiSeq(parameters, final) == <<ESC, CSI>> \o parameters \o <<final>>

TextBytes == {97, LF, CR}

ControlSequences ==
    { CsiSeq(p, f) : p \in {<<>>, <<45, 49>>, <<50>>}, f \in {83, 84} }
    \cup { CsiSeq(<<48 + n>>, 74) : n \in 0..3 }

Inputs == Seqs(TextBytes, MaxBufLen) \cup ControlSequences

\* The smallest memory size the setter takes, and the largest it refuses.
MemorySizes == { width * height - 1, width * height }

\* The dimensions given to get_console.
Dims == {<<2, 2>>, <<1, 2>>}

Init ==
    /\ \E d \in Dims : InitDims(d[1], d[2])
    /\ InitInstances
    /\ InitSurfaces

Next ==
    \/ \E bytestream \in Inputs : Write(bytestream, MaxCursor)
    \/ \E value \in MemorySizes : SetMemorySize(value)

Spec == Init /\ [][Next]_vars

(***************************************************************************)
(* SpecConsole: the methods and the size setters of a console called in    *)
(* any order.                                                              *)
(***************************************************************************)
ConsoleDims == {<<2, 2>>, <<1, 2>>}

ConsoleTexts == { <<97>>, <<97, 97, 97>> }

ClearModes == {"before", "after", "all_without_memory", "all"}

ConsoleScrolls == -1..2

\* The values given to the width and height setters.
Sizes == 0..MaxSize

\* Memory sizes around the one the setter takes first.
ConsoleMemorySizes == { width * height + d : d \in -1..1 }

InitConsoleCalls ==
    /\ \E d \in ConsoleDims : InitDims(d[1], d[2])
    /\ InitInstances
    /\ InitSurfaces

NextConsole ==
    \/ \E char \in ConsoleTexts : AddChar(char)
    \/ \E mode \in ClearModes : Clear(mode)
    \/ \E nb_lines \in ConsoleScrolls, up \in BOOLEAN : Scroll(nb_lines, up)
    \/ CarriageReturn
    \/ LineField
    \/ \E value \in Sizes : SetWidth(value)
    \/ \E value \in Sizes : SetHeight(value)
    \/ \E value \in ConsoleMemorySizes : SetMemorySize(value)

SpecConsole == InitConsoleCalls /\ [][NextConsole]_vars

(***************************************************************************)
(* SpecSizes: nothing but assignments of width, height and memory_size     *)
(* after get_console.                                                      *)
(***************************************************************************)
AssignedSizes == 0..MaxAssigned

NextSizes ==
    \/ \E value \in AssignedSizes : SetWidth(value)
    \/ \E value \in AssignedSizes : SetHeight(value)
    \/ \E value \in ConsoleMemorySizes : SetMemorySize(value)

SpecSizes == InitConsoleCalls /\ [][NextSizes]_vars

(***************************************************************************)
(* SpecPen: the colours of a console of one row assigned, well and badly,  *)
(* between the characters added to it.                                     *)
(***************************************************************************)
WellFormedColours ==
    { StrValue("red"), StrValue("default"), SeqValue(<<1, 2, 3>>),
      SeqValue(<<1, 2, 3, 4>>) }

\* An unknown name, tuples of 2 and of 5, components outside 0..255, a
\* component that is a str, and values that are neither a str nor a sequence.
MalformedColours ==
    { StrValue("no_such_colour"), SeqValue(<<1, 2>>), SeqValue(<<1, 2, 3, 4, 5>>),
      SeqValue(<<256, 2, 3>>), SeqValue(<<1, 2, 3, -1>>),
      MixedValue(<<0, 2, 3>>, {1}), MixedValue(<<1, 2, 3, 0>>, {4}), OtherValue }

ColourValues == WellFormedColours \cup MalformedColours

\* The values assigned to console.font_transparency.
AssignedAlphas == {9}

InitPen ==
    /\ InitDims(2, 1)
    /\ InitInstances
    /\ InitSurfaces

NextPen ==
    \/ \E value \in ColourValues : SetForegroundColour(value)
    \/ \E value \in {StrValue("red")} \cup MalformedColours : SetBackgroundColour(value)
    \/ cursor < MaxPenCursor /\ AddChar(<<97>>)
    \/ \E value \in AssignedAlphas : SetFontTransparency(value)

SpecPen == InitPen /\ [][NextPen]_vars

(***************************************************************************)
(* SpecSgr: Select Graphic Rendition sequences written to a console whose  *)
(* colours are also assigned directly, with and without an alpha.          *)
(***************************************************************************)
\* "1", "7", "44", and "99" that no table has.
SgrParameters == { Key1(1), Key1(7), Key2(4, 4), Key2(9, 9) }

\* ESC [ 7 m, ESC [ 27 m, ESC [ 0 m, ESC [ 1 ; 31 m and ESC [ 99 : 44 m.
SgrSequences ==
    { CsiSeq(Key1(7), 109), CsiSeq(Key2(2, 7), 109), CsiSeq(Key1(0), 109),
      CsiSeq(Key1(1) \o <<59>> \o Key2(3, 1), 109),
      CsiSeq(Key2(9, 9) \o <<58>> \o Key2(4, 4), 109) }

NextSgr ==
    \/ \E bytestream \in SgrSequences : Write(bytestream, 0)
    \/ SetForegroundColour(SeqValue(<<1, 2, 3, 4>>))
    \/ SetBackgroundColour(SeqValue(<<5, 6, 7>>))

SpecSgr == InitPen /\ [][NextSgr]_vars

(***************************************************************************)
(* SpecText: text printed to a TextIOConsoleWrapper, flushed now and then. *)
(***************************************************************************)
\* "a" and "\u00e9", one and two bytes long once encoded.
PrintedTexts == Seqs({97, 233}, MaxBufLen)

InitText ==
    /\ InitDims(2, 2)
    /\ InitInstances
    /\ InitSurfaces

NextText ==
    \/ \E text \in PrintedTexts : TextWrite(text)
    \/ TextFlush

SpecText == InitText /\ [][NextText]_vars

(***************************************************************************)
(* SpecErase: text and ESC [ n J written to a console of two rows.         *)
(***************************************************************************)
\* "a", "aaa", LF, CR, ESC [ S, ESC [ T, ESC [ -1 T, ESC [ J and ESC [ n J, n = 0..4
EraseInputs ==
    { <<97>>, <<97, 97, 97>>, <<LF>>, <<CR>> }
    \cup { CsiSeq(<<>>, 83), CsiSeq(<<>>, 84), CsiSeq(<<45, 49>>, 84) }
    \cup { CsiSeq(p, 74) : p \in {<<>>} \cup { <<48 + n>> : n \in 0..4 } }

NextErase == \E bytestream \in EraseInputs : Write(bytestream, MaxCursor)

SpecErase == InitConsoleCalls /\ [][NextErase]_vars

(***************************************************************************)
(* SpecDecoder: bytes written one or two at a time to a console of one     *)
(* row, so that every state of the decoder is entered and left between      *)
(* calls: printable text, two-byte characters, unsupported control bytes   *)
(* and the bytes of Select Graphic Rendition sequences.                    *)
(***************************************************************************)
DecoderBytes == {97, ESC, CSI, 51, 109, 195}

\* Every byte alone, and the buffers of several bytes that batch characters,
\* start an escape sequence after them or end in a byte that is not UTF-8.
DecoderInputs == Seqs(DecoderBytes, 1) \cup Seqs({97, ESC, 195}, MaxBufLen)

DecoderDims == {<<2, 1>>}

InitDecoder ==
    /\ \E d \in DecoderDims : InitDims(d[1], d[2])
    /\ InitInstances
    /\ InitSurfaces

NextDecoder == \E bytestream \in DecoderInputs : Write(bytestream, MaxDecoderCursor)

SpecDecoder == InitDecoder /\ [][NextDecoder]_vars

(***************************************************************************)
(* SpecUtf8: buffers that are and are not valid UTF-8 written to a console *)
(* of one row, between the bytes of escape sequences.                      *)
(***************************************************************************)
\* "a", ESC, "[", "m", the first byte of a two-byte character alone, after
\* "a" and with its second byte, and that character before a byte that is
\* never UTF-8.
Utf8Inputs ==
    { <<97>>, <<ESC>>, <<CSI>>, <<109>>, <<195>>, <<97, 195>>, <<195, 169>>,
      <<195, 169, 255>> }

NextUtf8 == \E bytestream \in Utf8Inputs : Write(bytestream, MaxDecoderCursor)

SpecUtf8 == InitDecoder /\ [][NextUtf8]_vars

(***************************************************************************)
(* SpecOrder: buffers that hold text before and after a control byte,      *)
(* written to a console of one row of three cells.                         *)
(***************************************************************************)
\* "ab" CR "c", "a" LF "b", "a", "c", CR, LF and ESC [ 2 J
OrderInputs ==
    { <<97, 98, CR, 99>>, <<97, LF, 98>>, <<97>>, <<99>>, <<CR>>, <<LF>>,
      CsiSeq(Key1(2), 74) }

InitOrder ==
    /\ InitDims(3, 1)
    /\ InitInstances
    /\ InitSurfaces

NextOrder == \E bytestream \in OrderInputs : Write(bytestream, MaxCursor)

SpecOrder == InitOrder /\ [][NextOrder]_vars

(***************************************************************************)
(* SpecResubmit: bytes given to a BufferedIOConsole, whose flush gives     *)
(* them to RawIOConsole.write again and again until all are taken.  The    *)
(* loop of flush runs on once it has started.                              *)
(***************************************************************************)
\* "a", "aa", a two-byte character whole and cut, ESC, ESC "a", and "a"
\* before and after a byte that is never UTF-8, and that byte alone.
ResubmitInputs ==
    { <<97>>, <<97, 97>>, <<195, 169>>, <<195>>, <<ESC>>, <<ESC, 97>>,
      <<97, 255>>, <<255, 97>>, <<255>> }

NextResubmit ==
    \/ \E b \in ResubmitInputs : cursor < MaxCursor /\ BufferedWrite(b)
    \/ FlushStep

SpecResubmit == InitDecoder /\ [][NextResubmit]_vars /\ WF_vars(FlushStep)

(***************************************************************************)
(* Claims on the presentation stream and the calls that write to it.       *)
(***************************************************************************)
(* SpecRegistry: two threads call get_console, each as often as it likes.  *)
(***************************************************************************)
InitThreads ==
    /\ InitDims(2, 1)
    /\ InitInstances
    /\ InitSurfaces

NextRegistry ==
    \E t \in Threads :
        /\ \/ \E n \in Names : GetConsole(t, n)
           \/ OuterCheck(t)
           \/ InnerCheck(t)
           \/ InitCheck(t)
           \/ Register(t)
           \/ InitConsole(t)
           \/ Return(t)
        /\ UNCHANGED << consoleVars, surfaceVars >>

SpecRegistry == InitThreads /\ [][NextRegistry]_vars

(***************************************************************************)
(* SpecSurface: a thread renders the window MaxRenders times while the     *)
(* display loop reads Console.surface.                                     *)
(***************************************************************************)
NextSurface ==
    /\ \/ RenderAcquire
       \/ Blit
       \/ RenderRelease
       \/ RenderCopy
       \/ SurfaceLocked
       \/ SurfaceReturn
       \/ ReadSurface
    /\ UNCHANGED << consoleVars, registryVars >>

SpecSurface == InitThreads /\ [][NextSurface]_vars

(***************************************************************************)
\* The decoder is in its Normal state: no escape sequence is being
\* accumulated and no displayable byte is pending.
DecoderNormal(c) == c.byte_esc_seq = <<>> /\ c.byte_displaying_char = <<>>

\* C1: every write call returns an integer and no exception escapes to the
\* caller, whatever the byte buffers written so far.
C1_WriteNeverRaises == exc = "none"

\* Texts without control bytes, up to one more character than MaxCursor.
PrintableTexts == Seqs({97, 98}, MaxText)

\* What C3 promises of write(text) called on console c.
PrintableTextWritten(c, text) ==
    LET r == write(c, text)
    IN  /\ Ok(r)
        /\ r.ret = Len(text)
        /\ r.cursor = c.cursor + Len(text)
        /\ \A i \in 1..Len(text) :
              /\ InRange(r.presentation_stream, c.cursor + i - 1)
              /\ GetItem(r.presentation_stream, c.cursor + i - 1) = CharArgs(c, text[i])

\* C3: on a console whose decoder is in the Normal state, writing a text
\* without control bytes, of any length, returns its byte length, advances
\* the cursor by one per character and leaves the characters in stream order
\* from the initial cursor on, each with the pen of the moment.
C3_PrintableText ==
    (Running /\ DecoderNormal(Con)) =>
        \A text \in PrintableTexts : PrintableTextWritten(Con, text)

\* An empty console of memory_size = width * height.
EmptyFullMemory(c) ==
    /\ c.char_memory_size = c.width * c.height
    /\ c.presentation_stream = NewStream(c.width * c.height, c.char_memory_size)
    /\ c.cursor = 0
    /\ c.start_window = 0
    /\ DecoderNormal(c)

\* C7: with memory_size = width * height, writing width * height + 1
\* characters to an empty console succeeds, keeps the stream at memory_size
\* cells, drops the oldest row only and stores the last character.
C7_EvictOldestRow ==
    (Running /\ EmptyFullMemory(Con)) =>
        LET n == width * height
            r == write(Con, [k \in 1..(n + 1) |-> 97])
        IN  /\ Ok(r)
            /\ Len(r.presentation_stream) = char_memory_size
            /\ \A i \in 0..(n - width - 1) :
                  GetItem(r.presentation_stream, i) = CharArgs(Con, 97)
            /\ \E i \in (n - width)..(n - 1) :
                  GetItem(r.presentation_stream, i) = CharArgs(Con, 97)

\* The numbers of lines scroll is called with.
ScrollLines == (0 - MaxScroll)..(MaxScroll)

\* The rendered window lies inside the presentation stream.
WindowInStream(c) ==
    0 <= c.start_window /\ c.end_window <= Len(c.presentation_stream) - 1

\* C10: for every integer n, negative ones included, and both directions,
\* scroll(n, up) raises nothing and leaves the rendered window inside the
\* presentation stream.
C10_ScrollStaysInStream ==
    Running =>
        \A n \in ScrollLines, up \in BOOLEAN :
            Ok(scroll(Con, n, up)) /\ WindowInStream(scroll(Con, n, up))

(***************************************************************************)
(* Claims on the decoder.                                                  *)
(***************************************************************************)
\* The bytes of b from position k (0-based) on start a well-formed UTF-8
\* character of n bytes (The Unicode Standard, table 3-7).
WellFormedAt(b, k, n) ==
    /\ k + n <= Len(b)
    /\ \/ n = 1 /\ b[k + 1] \in 0..127
       \/ n = 2 /\ b[k + 1] \in 194..223 /\ b[k + 2] \in 128..191
       \/ /\ n = 3
          /\ b[k + 3] \in 128..191
          /\ \/ b[k + 1] = 224 /\ b[k + 2] \in 160..191
             \/ b[k + 1] \in (225..236) \cup (238..239) /\ b[k + 2] \in 128..191
             \/ b[k + 1] = 237 /\ b[k + 2] \in 128..159
       \/ /\ n = 4
          /\ b[k + 3] \in 128..191 /\ b[k + 4] \in 128..191
          /\ \/ b[k + 1] = 240 /\ b[k + 2] \in 144..191
             \/ b[k + 1] \in 241..243 /\ b[k + 2] \in 128..191
             \/ b[k + 1] = 244 /\ b[k + 2] \in 128..143

\* The first k bytes of b are a sequence of well-formed characters.
RECURSIVE IsValidPrefix(_, _)
IsValidPrefix(b, k) ==
    k = 0 \/ \E n \in 1..4 : n <= k /\ WellFormedAt(b, k - n, n) /\ IsValidPrefix(b, k - n)

\* The index of the first byte of the first invalid or incomplete sequence of
\* b, len(b) when there is none.
FirstIllFormed(b) ==
    CHOOSE k \in 0..Len(b) :
        /\ IsValidPrefix(b, k)
        /\ k = Len(b) \/ \A n \in 1..4 : ~WellFormedAt(b, k, n)

\* Buffers of UTF-8 characters, whole and cut, of escape bytes and of bytes
\* that are never UTF-8.
Utf8Buffers ==
    Seqs({97, ESC, 195, 169, 255}, 2)
    \cup { <<226, 130, 172>>, <<226, 130>>, <<97, 226, 130>>, <<195, 169, 195>>,
           <<240, 159, 152, 128>>, <<237, 160, 128>>, <<ESC, CSI, 195, 169, 109>> }

\* C2: write(b) returns len(b) when b is valid UTF-8 and otherwise the index
\* of the first byte of the first invalid or incomplete sequence, whatever the
\* state of the decoder and the escape sequences in b.
C2_ReturnsValidPrefixLength ==
    Running =>
        \A b \in Utf8Buffers :
            Ok(write(Con, b)) /\ write(Con, b).ret = FirstIllFormed(b)

\* C6: the sequence being accumulated stays shorter than a fixed bound (here
\* the longest one the model lets a state hold), whatever the bytes written.
C6_EscapeSequenceBounded == Len(byte_esc_seq) < MaxEscLen

\* ESC [ 3 1 m and ESC [ 0 m
SgrRed == CsiSeq(<<51, 49>>, 109)
SgrReset == CsiSeq(<<48>>, 109)

\* The texts written between the sequences.
SgrTexts == Seqs({97, 98}, 2)

\* The cell of a character written with the pen of c turned red, and with
\* the pen of c reset.
RedCell(c, char) ==
    [CharArgs(c, char) EXCEPT !.foreground_colour = <<170, 0, 0, c.font_transparency>>]
DefaultCell(c, char) ==
    [ str |-> char,
      foreground_colour |-> <<255, 255, 255, c.font_transparency>>,
      background_colour |-> <<0, 0, 0, c.background_transparency>>,
      italic |-> FALSE, bold |-> FALSE, underline |-> FALSE ]

\* What C5 promises of write(ESC[31m t1 ESC[0m t2) called on console c.
SgrInterleaved(c, t1, t2) ==
    LET r == write(c, SgrRed \o t1 \o SgrReset \o t2)
        n == Len(t1) + Len(t2)
        later == write(r, SgrRed)
    IN  /\ Ok(r)
        /\ r.cursor = c.cursor + n
        /\ \A i \in 1..Len(t1) :
              /\ InRange(r.presentation_stream, c.cursor + i - 1)
              /\ GetItem(r.presentation_stream, c.cursor + i - 1) = RedCell(c, t1[i])
        /\ \A i \in 1..Len(t2) :
              /\ InRange(r.presentation_stream, c.cursor + Len(t1) + i - 1)
              /\ GetItem(r.presentation_stream, c.cursor + Len(t1) + i - 1)
                    = DefaultCell(c, t2[i])
        /\ Len(r.presentation_stream) >= Len(c.presentation_stream)
        /\ \A i \in 0..(Len(r.presentation_stream) - 1) :
              (i < c.cursor \/ i >= c.cursor + n) =>
                  GetItem(r.presentation_stream, i) =
                      IF i < Len(c.presentation_stream)
                      THEN GetItem(c.presentation_stream, i) ELSE NoneCell
        /\ Ok(later)
        /\ later.presentation_stream = r.presentation_stream

\* C5: when Select Graphic Rendition sequences are interleaved with text, one
\* cell is written for each printable character and none for the bytes of the
\* sequences, each cell has the attributes of the pen at the moment it was
\* written, a later change of the pen leaves the cells as they are, and the
\* cursor ends at its start value plus the number of printable characters.
C5_SgrInterleavedWithText ==
    (Running /\ DecoderNormal(Con)) =>
        \A t1 \in SgrTexts, t2 \in SgrTexts : SgrInterleaved(Con, t1, t2)

\* Byte strings of valid UTF-8: text, a two-byte character, a line feed, and
\* escape sequences between characters.
ChunkStrings ==
    { <<97, 98>>, <<195, 169, 97>>, <<97, LF, 98>>, SgrRed,
      <<97>> \o SgrRed \o <<98>>, CsiSeq(<<49>>, 83) \o <<97>>,
      <<ESC, 195, 169>>, <<ESC, CSI, 51, 59, 52, 109, 97>> }

\* write(a) followed, when it returns, by write(b).
Chunked(c, a, b) ==
    LET first == write(c, a) IN IF Ok(first) THEN write(first, b) ELSE first

\* Both raise the same exception, or both return and leave the same console
\* and decoder; the returned counts apart.
SameOutcome(x, y) ==
    /\ x.exc = y.exc
    /\ Ok(x) => [x EXCEPT !.ret = 0] = [y EXCEPT !.ret = 0]

\* C4: for a byte string s of valid UTF-8 cut in a and b at a character
\* boundary, inside an escape sequence included, write(a) followed by
\* write(b) leaves the presentation stream, the cursor, the window, the pen
\* and the decoder as write(s) leaves them.
C4_ChunkingInvisible ==
    Running =>
        \A s \in ChunkStrings :
            \A k \in 1..(Len(s) - 1) :
                (IsValidPrefix(s, k) /\ IsValidPrefix(s, Len(s))) =>
                    SameOutcome(write(Con, s),
                                Chunked(Con, SubSeq(s, 1, k), SubSeq(s, k + 1, Len(s))))

(***************************************************************************)
(* Claims on the registry and on the surfaces.                             *)
(***************************************************************************)
\* C8: whatever the interleaving of the threads that call get_console with
\* a name, one Console only is ever registered for that name and every call
\* returns that console.
C8_OneConsolePerName ==
    \A n \in Names :
        /\ Cardinality({ r \in registered : r[1] = n }) <= 1
        /\ Cardinality({ r.console : r \in { q \in returned : q.name = n } }) <= 1

\* C9: every surface the display loop reads through Console.surface is the
\* result of one completed render, never a surface drawn in part.  (The
\* property never waits for the lock: none of its steps is guarded by it.)
C9_ReaderSeesCompleteRender ==
    \A i \in Cells, j \in Cells : observed[i] = observed[j]


\* scroll(n, up=True) followed by scroll(n, up=False)
ScrollUpThenDown(c, n) ==
    Then(scroll(c, n, TRUE), LAMBDA c1 : scroll(c1, n, FALSE))

\* Consoles x and y show the same rows, and hold the same cells and cursor.
SameView(x, y) ==
    /\ x.start_window = y.start_window
    /\ x.end_window = y.end_window
    /\ x.cursor = y.cursor
    /\ x.presentation_stream = y.presentation_stream

\* C11: when at least n rows of history lie above the rendered window
\* (start_window >= n * width), scrolling n lines up and then n lines down
\* returns without an exception and leaves start_window, end_window, the
\* cursor and every cell as they were.
C11_ScrollRoundTrip ==
    Running =>
        \A n \in 1..MaxScroll :
            start_window >= n * width =>
                LET r == ScrollUpThenDown(Con, n)
                IN  Ok(r) /\ SameView(r, Con)

\* A scroll has left a console with written rows above the window, from
\* which one line up and one line down moves the window and brings it back.
C11_Witness ==
    /\ Running
    /\ last_call = "scroll"
    /\ start_window >= width
    /\ \E i \in 1..start_window : presentation_stream[i] # NoneCell
    /\ scroll(Con, 1, TRUE).start_window = start_window - width
    /\ SameView(ScrollUpThenDown(Con, 1), Con)

\* The stream, cursor and window of a console of c's dimensions with nothing
\* written: width*height empty cells, all of them rendered.
Blank(c) ==
    /\ c.presentation_stream = [k \in 1..(c.width * c.height) |-> NoneCell]
    /\ c.cursor = 0
    /\ c.start_window = 0
    /\ c.end_window = c.width * c.height - 1

\* C12: from any reachable state clear("all") returns and leaves exactly
\* width*height empty cells, the cursor at 0 and the window on
\* [0, width*height - 1], as in a fresh console of those dimensions: no cell
\* written before is left in the stream.
C12_ClearAll ==
    Running =>
        LET r == clear(Con, "all")
        IN  Ok(r) /\ Blank(r) /\ r.width = width /\ r.height = height

\* C13: clear("all_without_memory") returns, empties every cell whose index
\* is in [start_window, end_window] and leaves the cursor, start_window,
\* end_window, the length of the stream and every other cell as they were.
C13_ClearWindowOnly ==
    Running =>
        LET r == clear(Con, "all_without_memory")
        IN  /\ Ok(r)
            /\ r.cursor = cursor
            /\ r.start_window = start_window
            /\ r.end_window = end_window
            /\ Len(r.presentation_stream) = Len(presentation_stream)
            /\ \A i \in 0..(Len(presentation_stream) - 1) :
                   r.presentation_stream[i + 1] =
                       IF start_window <= i /\ i <= end_window
                       THEN NoneCell
                       ELSE presentation_stream[i + 1]

\* The parameter strings of ESC [ ... J the claim names, each with the mode
\* of clear it stands for: "0", "1", "2", "3", none, and strings int() refuses.
EdClears ==
    { << <<48>>, "after" >>, << <<49>>, "before" >>,
      << <<50>>, "all_without_memory" >>, << <<51>>, "all" >>,
      << <<>>, "all" >>, << <<59>>, "all" >>, << <<49, 59, 50>>, "all" >>,
      << <<45>>, "all" >> }

\* Parameters that are integers other than 0, 1, 2, 3: "4", "9", "-1", "10".
EdOthers == { <<52>>, <<57>>, <<45, 49>>, <<49, 48>> }

\* Consoles x and y are in the same state and the calls that led to them
\* ended the same way (the decoder's buffers apart).
SameConsole(x, y) ==
    /\ x.exc = y.exc
    /\ x.presentation_stream = y.presentation_stream
    /\ x.cursor = y.cursor
    /\ x.start_window = y.start_window
    /\ x.end_window = y.end_window
    /\ x.width = y.width /\ x.height = y.height
    /\ x.char_memory_size = y.char_memory_size
    /\ x.foreground_colour = y.foreground_colour
    /\ x.background_colour = y.background_colour
    /\ x.font_transparency = y.font_transparency
    /\ x.background_transparency = y.background_transparency
    /\ x.bold = y.bold /\ x.italic = y.italic /\ x.underline = y.underline

SameStreamAndWindow(x, y) ==
    /\ x.presentation_stream = y.presentation_stream
    /\ x.start_window = y.start_window
    /\ x.end_window = y.end_window

\* The console of the example: cursor 42 on rows of 80 columns.
Cursor42 == [Con EXCEPT !.width = 80, !.cursor = 42]

\* carriage_return puts the cursor on the first column of its row
\* ((cursor div width) * width: doing it twice changes nothing more, the row
\* is the same), line_field adds width to the cursor (the column is the
\* same), the two commute, and neither raises nor touches the stream or the
\* rendered window.
CrLfLaws ==
    Running =>
        LET cr == carriage_return(Con)
            lf == line_field(Con)
        IN  /\ Ok(cr) /\ Ok(lf)
            /\ cr.cursor = (cursor \div width) * width
            /\ cr.cursor % width = 0
            /\ cr.cursor \div width = cursor \div width
            /\ carriage_return(cr).cursor = cr.cursor
            /\ lf.cursor = cursor + width
            /\ lf.cursor % width = cursor % width
            /\ line_field(cr).cursor = carriage_return(lf).cursor
            /\ line_field(cr).cursor = (cursor \div width + 1) * width
            /\ SameStreamAndWindow(cr, Con) /\ SameStreamAndWindow(lf, Con)
            /\ SameStreamAndWindow(line_field(cr), Con)

\* From cursor 42 on rows of 80 columns, CR gives after_cr and LF then after_lf.
CrLfExample(after_cr, after_lf) ==
    /\ carriage_return(Cursor42).cursor = after_cr
    /\ line_field(carriage_return(Cursor42)).cursor = after_lf

\* C15, as stated: the laws of carriage_return and line_field, and from
\* cursor 42 with width 80, CR gives 40 and LF then 120.
C15_AsStated == CrLfLaws /\ CrLfExample(40, 120)

\* C15, amended: the laws of carriage_return and line_field (first column of
\* the row, one row down at the same column, commuting, stream and window
\* untouched), and from cursor 42 with width 80, which is on the first row,
\* CR gives 0 and LF then 80.
C15_CarriageReturnLineField == CrLfLaws /\ CrLfExample(0, 80)

\* carriage_return has brought the cursor back to the first column of a row
\* below the first one, onto a cell that had been written.
C15_Witness ==
    /\ Running
    /\ last_call = "carriage_return"
    /\ width = 2
    /\ cursor >= width
    /\ cursor % width = 0
    /\ cursor < Len(presentation_stream)
    /\ presentation_stream[cursor + 1] # NoneCell
    /\ line_field(Con).cursor = cursor + width

\* C16: assigning a width or a height <= 0, or a memory_size below
\* width*height, raises nothing and changes nothing; any other assignment of
\* width, height or memory_size takes the value and leaves width*height
\* empty cells, the cursor at 0 and the window on [0, width*height - 1].
C16_SettersRejectOrReinit ==
    Running =>
        /\ \A value \in -1..(MaxSize + 1) :
               LET w == set_width(Con, value)
                   h == set_height(Con, value)
               IN  /\ Ok(w) /\ Ok(h)
                   /\ IF value <= 0
                      THEN SameConsole(w, Con) /\ SameConsole(h, Con)
                      ELSE /\ w.width = value /\ w.height = height /\ Blank(w)
                           /\ h.height = value /\ h.width = width /\ Blank(h)
        /\ \A value \in ConsoleMemorySizes :
               LET m == set_memory_size(Con, value)
               IN  /\ Ok(m)
                   /\ IF value < width * height
                      THEN SameConsole(m, Con)
                      ELSE m.char_memory_size = value /\ Blank(m)

\* C17: after get_console and any assignments of width, height and
\* memory_size, memory_size >= width*height, the stream holds at least
\* width*height cells, and every index of [start_window, end_window] is that
\* of a cell of the stream.
C17_MemoryHoldsTheWindow ==
    Running =>
        /\ char_memory_size >= width * height
        /\ Len(presentation_stream) >= width * height
        /\ \A i \in start_window..end_window :
               0 <= i /\ i < Len(presentation_stream)

\* C18: assigning a malformed value to foreground_colour or
\* background_colour raises nothing and leaves the colour and the
\* transparency of that channel as they were.
C18_MalformedColourKept ==
    Running =>
        \A value \in MalformedColours :
            LET f == set_foreground_colour(Con, value)
                b == set_background_colour(Con, value)
            IN  /\ Ok(f)
                /\ f.foreground_colour = foreground_colour
                /\ f.font_transparency = font_transparency
                /\ Ok(b)
                /\ b.background_colour = background_colour
                /\ b.background_transparency = background_transparency

\* C20: in every state reached by writes, clears, scrolls, CR, LF and
\* assignments of width, height and memory_size (memory sizes that are no
\* multiple of width included), the length of the stream is a multiple of
\* width.
C20_LengthMultipleOfWidth ==
    Running => Len(presentation_stream) % width = 0

\* C19: once a write on a TextIOConsoleWrapper made with the default
\* parameters has returned, with no flush asked for, every character written
\* so far has been given to the console: none is held back on the way.
C19_TextReachesConsole ==
    (Running /\ last_call = "TextIOConsoleWrapper.write") => write_buf = <<>>

\* C21: in every reachable state, the one an exception leaves included,
\* end_window - start_window = width*height - 1.
C21_WindowSpansTheScreen ==
    end_window - start_window = width * height - 1

\* A scroll by a negative number of lines has left the window of a console
\* whose stream had grown before the first cell.
C21_Witness ==
    /\ Running
    /\ last_call = "scroll"
    /\ start_window < 0
    /\ Len(presentation_stream) > width * height
    /\ \E i \in 1..Len(presentation_stream) : presentation_stream[i] # NoneCell

\* The values assigned to a transparency: below, inside and above 0..255.
Transparencies == {-1, 0, 4, 255, 256}

\* C22, as stated: after font_transparency or background_transparency is
\* assigned, directly or by a colour of four components, the stream is
\* width*height empty cells, the cursor 0 and the window [0, width*height - 1].
C22_AsStated ==
    Running =>
        /\ \A value \in Transparencies :
               /\ Blank(set_font_transparency(Con, value))
               /\ Blank(set_background_transparency(Con, value))
        /\ Blank(set_foreground_colour(Con, SeqValue(<<1, 2, 3, 4>>)))
        /\ Blank(set_background_colour(Con, SeqValue(<<1, 2, 3, 4>>)))

\* C22, amended: assigning font_transparency or background_transparency,
\* directly or by a colour of four components, stores the value brought into
\* 0..255 and renders; the stream, the cursor and the window stay as they
\* were.
C22_TransparencyKeepsTheStream ==
    Running =>
        /\ \A value \in Transparencies :
               LET f == set_font_transparency(Con, value)
                   b == set_background_transparency(Con, value)
               IN  /\ SameView(f, Con) /\ SameView(b, Con)
                   /\ f.font_transparency = Clamp255(value)
                   /\ b.background_transparency = Clamp255(value)
                   /\ f.font_transparency \in 0..255
                   /\ f.background_transparency = background_transparency
                   /\ b.font_transparency = font_transparency
        /\ LET f == set_foreground_colour(Con, SeqValue(<<1, 2, 3, 4>>))
               b == set_background_colour(Con, SeqValue(<<1, 2, 3, 4>>))
           IN  /\ SameView(f, Con) /\ SameView(b, Con)
               /\ f.font_transparency = 4 /\ f.foreground_colour = <<1, 2, 3, 4>>
               /\ b.background_transparency = 4 /\ b.background_colour = <<1, 2, 3, 4>>

\* A colour of four components has just changed the font transparency of a
\* console that holds text: the text and the cursor are still there.
C22_Witness ==
    /\ Running
    /\ last_call = "foreground_colour"
    /\ font_transparency = 4
    /\ foreground_colour = <<1, 2, 3, 4>>
    /\ cursor > 0
    /\ presentation_stream[1] # NoneCell
    /\ presentation_stream[1].foreground_colour[4] = 255

\* C23: from any reachable state, the window scrolled up into the history
\* included, add_char of one or several characters returns (every index
\* handed to the renderer had a position), and the newest index it wrote
\* lies in the rendered window, at <<column, row>> with 0 <= column < width
\* and 0 <= row < height.  (The first indexes of a text longer than what is
\* left of the screen scroll out with their row and are not asked for.)
C23_WrittenCellsAreRendered ==
    Running =>
        \A char \in ConsoleTexts :
            LET r == add_char(Con, char)
                newest == cursor + Len(char) - 1
            IN  /\ Ok(r)
                /\ r.start_window <= newest /\ newest <= r.end_window
                /\ chartopixcoord(r, newest) # <<>>
                /\ chartopixcoord(r, newest)[1] \in 0..(width - 1)
                /\ chartopixcoord(r, newest)[2] \in 0..(height - 1)

\* Sequences _esc_seq_decode classifies 'error': TAB, ESC a, ESC LF,
\* ESC ESC, ESC and the first byte of a two-byte character, ESC [ H, ESC [ 4 J.
ErrorSequences ==
    { <<9>>, <<ESC, 97>>, <<ESC, LF>>, <<ESC, ESC>>, <<ESC, 195>>,
      CsiSeq(<<>>, 72), CsiSeq(<<52>>, 74) }

\* What follows an error sequence: "a", LF, a two-byte character, its second
\* byte, and the start of a sequence.
FollowingBytes == { <<97>>, <<LF>>, <<195, 169>>, <<169>>, <<ESC>> }

\* The decoder and the console are in the same state in x and y, and the
\* writes that led there ended the same way.
SameDecoding(x, y) ==
    /\ SameConsole(x, y)
    /\ x.byte_esc_seq = y.byte_esc_seq
    /\ x.byte_displaying_char = y.byte_displaying_char

\* C24: written to an idle decoder, an error sequence changes neither the
\* stream, the cursor, the window nor the pen and leaves the decoder idle;
\* the bytes written after it in the same buffer are decoded as they are
\* when written alone.
C24_ErrorSequenceDiscarded ==
    (Running /\ DecoderNormal(Con)) =>
        \A e \in ErrorSequences :
            /\ Utf8Valid(e) =>
                   LET w == write(Con, e)
                   IN  Ok(w) /\ SameConsole(w, Con) /\ DecoderNormal(w) /\ w.ret = Len(e)
            /\ \A following \in FollowingBytes :
                   Utf8Valid(e \o following) =>
                       SameDecoding(write(Con, e \o following), write(Con, following))

\* The rendered window is the end of the stream, as writes, carriage returns
\* and line feeds leave it, and the memory has room for one more row.
Unscrolled(c) ==
    /\ c.end_window = Len(c.presentation_stream) - 1
    /\ c.start_window = Len(c.presentation_stream) - c.width * c.height
    /\ Len(c.presentation_stream) + c.width <= c.char_memory_size

\* C25: wherever writes, carriage returns and line feeds have taken the
\* cursor, more than a row past the end of the stream included, add_char of
\* one character returns, has grown the stream when cursor >= length, has
\* stored the cell at index cursor and has advanced the cursor by one.
C25_AddCharAtAnyCursor ==
    (Running /\ Unscrolled(Con)) =>
        LET r == add_char(Con, <<97>>)
        IN  /\ Ok(r)
            /\ r.cursor = cursor + 1
            /\ cursor < Len(r.presentation_stream)
            /\ r.presentation_stream[cursor + 1] = CharArgs(Con, 97)
            /\ cursor >= Len(presentation_stream) =>
                   Len(r.presentation_stream) > Len(presentation_stream)

\* add_char called once per character of char, from the i-th on, in order;
\* a call that raises ends the sequence.
RECURSIVE add_each_char(_, _, _)
add_each_char(c, char, i) ==
    IF i > Len(char) THEN c
    ELSE Then(add_char(c, <<char[i]>>), LAMBDA c1 : add_each_char(c1, char, i + 1))

LongTexts == { <<97, 98>>, <<98, 97, 97>> }

\* C26: add_char with a string of N > 1 characters leaves the stream, its
\* length, the cursor, start_window and end_window as N successive add_char
\* calls with the single characters do, and add_char("") changes nothing.
C26_BatchEqualsSingles ==
    Running =>
        /\ \A char \in LongTexts :
               SameView(add_char(Con, char), add_each_char(Con, char, 1))
        /\ add_char(Con, <<>>) = Con

\* The cells of c at the indices for which Emptied holds are empty and the
\* others are those of Con; the length, the cursor and the window are those of Con.
OnlyEmptied(c, Emptied(_)) ==
    /\ Len(c.presentation_stream) = Len(presentation_stream)
    /\ c.cursor = cursor
    /\ c.start_window = start_window
    /\ c.end_window = end_window
    /\ \A i \in 0..(Len(presentation_stream) - 1) :
           c.presentation_stream[i + 1] =
               IF Emptied(i) THEN NoneCell ELSE presentation_stream[i + 1]

InViewport(i) == start_window <= i /\ i <= end_window

\* C27: in every reachable state clear("before") returns, empties exactly
\* the cells of [start_window, cursor), changes no cell outside
\* [start_window, end_window] and leaves cursor and viewport unchanged.
C27_ClearBefore ==
    Running =>
        LET r == clear(Con, "before")
        IN  /\ Ok(r)
            /\ OnlyEmptied(r, LAMBDA i : start_window <= i /\ i < cursor)
            /\ \A i \in 0..(Len(presentation_stream) - 1) :
                   ~InViewport(i) => r.presentation_stream[i + 1] = presentation_stream[i + 1]

\* C28: in every reachable state clear("after") returns, empties exactly the
\* cells of [cursor, end_window], changes no cell outside
\* [start_window, end_window] and leaves the cursor, start_window,
\* end_window and the length of the stream unchanged.
C28_ClearAfter ==
    Running =>
        LET r == clear(Con, "after")
        IN  /\ Ok(r)
            /\ OnlyEmptied(r, LAMBDA i : cursor <= i /\ i <= end_window)
            /\ \A i \in 0..(Len(presentation_stream) - 1) :
                   ~InViewport(i) => r.presentation_stream[i + 1] = presentation_stream[i + 1]

\* The pen of x is the pen of y: colours, transparencies and styles.
SamePen(x, y) ==
    /\ x.foreground_colour = y.foreground_colour
    /\ x.background_colour = y.background_colour
    /\ x.font_transparency = y.font_transparency
    /\ x.background_transparency = y.background_transparency
    /\ x.bold = y.bold
    /\ x.italic = y.italic
    /\ x.underline = y.underline

ScrollCounts == -MaxScroll..MaxScroll

\* C29: for every n and both directions, scroll(n, up) leaves the stream, its
\* length, the cursor and the pen as they were: only start_window and
\* end_window may differ.
C29_ScrollMovesOnlyTheWindow ==
    Running =>
        \A nb_lines \in ScrollCounts, up \in BOOLEAN :
            LET r == scroll(Con, nb_lines, up)
            IN  /\ r.presentation_stream = presentation_stream
                /\ r.cursor = cursor
                /\ SamePen(r, Con)
                /\ [r EXCEPT !.start_window = start_window,
                             !.end_window = end_window,
                             !.exc = exc] = Con

C29_Witness ==
    /\ Running
    /\ last_call = "scroll"
    /\ cursor > 0
    /\ Len(presentation_stream) > width * height
    /\ start_window >= 0
    /\ end_window < Len(presentation_stream) - 1
    /\ presentation_stream[cursor] # NoneCell

\* C30: whatever the pen, ESC [ m is decoded as ESC [ 0 m: after it bold,
\* italic and underline are False and the colours are the default ones.
C30_SgrWithoutParameter ==
    (Running /\ DecoderNormal(Con)) =>
        LET r == write(Con, CsiSeq(<<>>, 109))
        IN  /\ Ok(r)
            /\ ~r.bold /\ ~r.italic /\ ~r.underline
            /\ SameDecoding(r, write(Con, CsiSeq(<<48>>, 109)))

(***************************************************************************)
(* Claims on the Select Graphic Rendition sequences and the pen.           *)
(***************************************************************************)
\* The parameters ps with the separators seps between them.
RECURSIVE JoinParameters(_, _)
JoinParameters(ps, seps) ==
    IF Len(ps) = 0 THEN <<>>
    ELSE IF Len(ps) = 1 THEN ps[1]
    ELSE ps[1] \o <<seps[1]>> \o JoinParameters(Tail(ps), Tail(seps))

\* ESC [ p m written for each parameter p of ps from the i-th on, in order.
RECURSIVE write_each_parameter(_, _, _)
write_each_parameter(c, ps, i) ==
    IF i > Len(ps) THEN c
    ELSE Then(write(c, CsiSeq(ps[i], 109)),
              LAMBDA c1 : write_each_parameter(c1, ps, i + 1))

MaxParameters == 2

ParameterLists == UNION { [1..n -> SgrParameters] : n \in 2..MaxParameters }

UnknownParameters == { Key2(9, 9), Key2(2, 8), Key3(1, 0, 8), <<63>>, <<32, 49>> }

\* C31: ESC [ p1 ; ... ; pn m returns its length with the decoder in Normal
\* and leaves the console as ESC [ p1 m ... ESC [ pn m does, with ';' or ':'
\* between any two parameters; a parameter that no table has leaves the
\* console as it was.
C31_SgrParametersInOrder ==
    (Running /\ DecoderNormal(Con)) =>
        /\ \A ps \in ParameterLists :
               \A seps \in [1..(Len(ps) - 1) -> {SEPARATORS[1], SEPARATORS[2]}] :
                   LET bytestream == CsiSeq(JoinParameters(ps, seps), 109)
                       r == write(Con, bytestream)
                   IN  /\ Ok(r)
                       /\ DecoderNormal(r)
                       /\ r.ret = Len(bytestream)
                       /\ SameConsole(r, write_each_parameter(Con, ps, 1))
        /\ \A p \in UnknownParameters :
               SameConsole(write(Con, CsiSeq(p, 109)), Con)

C31_Witness ==
    /\ Running
    /\ last_call = "write"
    /\ ret = Len(CsiSeq(Key2(9, 9) \o <<58>> \o Key2(4, 4), 109))
    /\ bold
    /\ background_colour = ReplaceAlpha(Lookup(STANDARD_COLOURS, "blue"), background_transparency)
    /\ background_transparency = 4

\* The colours and the stored transparencies of x are those of y, the two
\* channels exchanged.
Exchanged(x, y) ==
    /\ x.foreground_colour = y.background_colour
    /\ x.background_colour = y.foreground_colour
    /\ x.font_transparency = y.background_transparency
    /\ x.background_transparency = y.font_transparency

\* C32: ESC [ 7 m exchanges the foreground and background colours and the two
\* stored transparencies, ESC [ 27 m does the same exchange, and ESC [ 7 m
\* followed by ESC [ 27 m gives back the colours and transparencies there were.
C32_NegativeThenPositive ==
    (Running /\ DecoderNormal(Con)) =>
        LET negative == write(Con, CsiSeq(Key1(7), 109))
            positive == write(Con, CsiSeq(Key2(2, 7), 109))
            both == write(negative, CsiSeq(Key2(2, 7), 109))
        IN  /\ Ok(both)
            /\ Exchanged(negative, Con)
            /\ SameConsole(positive, negative)
            /\ SamePen(both, Con)

(***************************************************************************)
(* Claims on the scroll sequences.                                         *)
(***************************************************************************)
\* The parameters of ESC [ n S and ESC [ n T and the n each stands for:
\* none, "0", "1", "2", "3", " 2", and "?", "1;2" and "+" that int() refuses.
ScrollParameters ==
    { << <<>>, 1 >>, << Key1(0), 0 >>, << Key1(1), 1 >>, << Key1(2), 2 >>,
      << Key1(3), 3 >>, << <<32, 50>>, 2 >>, << <<63>>, 1 >>,
      << <<49, 59, 50>>, 1 >>, << <<43>>, 1 >> }

ValidTriples == { <<1, 2, 3>>, <<0, 255, 128>> }
ValidQuadruples == { <<1, 2, 3, 4>>, <<0, 0, 0, 0>>, <<255, 255, 255, 255>> }
ValidNames == { "red", "bright_white", "black" }

\* The background colour and transparency of x are those of Con.
BackgroundKept(x) ==
    /\ x.background_colour = background_colour
    /\ x.background_transparency = background_transparency

\* The foreground colour and transparency of x are those of Con.
ForegroundKept(x) ==
    /\ x.foreground_colour = foreground_colour
    /\ x.font_transparency = font_transparency

\* C34: a valid 3-tuple assigned to a colour gives that RGB with the
\* channel's stored transparency, which is kept; a valid 4-tuple gives that
\* colour and stores its alpha as the channel's transparency; a name or
\* "default" gives the RGB of the table or the default one with the stored
\* transparency, which is kept; the other channel is as it was.
C34_ColourAssignments ==
    Running =>
        /\ \A v \in ValidTriples :
               LET f == set_foreground_colour(Con, SeqValue(v))
                   b == set_background_colour(Con, SeqValue(v))
               IN  /\ Ok(f) /\ Ok(b)
                   /\ f.foreground_colour = Append(v, font_transparency)
                   /\ f.font_transparency = font_transparency
                   /\ BackgroundKept(f)
                   /\ b.background_colour = Append(v, background_transparency)
                   /\ b.background_transparency = background_transparency
                   /\ ForegroundKept(b)
        /\ \A v \in ValidQuadruples :
               LET f == set_foreground_colour(Con, SeqValue(v))
                   b == set_background_colour(Con, SeqValue(v))
               IN  /\ Ok(f) /\ Ok(b)
                   /\ f.foreground_colour = v
                   /\ f.font_transparency = v[4]
                   /\ BackgroundKept(f)
                   /\ b.background_colour = v
                   /\ b.background_transparency = v[4]
                   /\ ForegroundKept(b)
        /\ \A colour_name \in ValidNames \cup {"default"} :
               LET f == set_foreground_colour(Con, StrValue(colour_name))
                   b == set_background_colour(Con, StrValue(colour_name))
                   rgb(default) == IF colour_name = "default" THEN default
                                   ELSE Lookup(STANDARD_COLOURS, colour_name)
               IN  /\ Ok(f) /\ Ok(b)
                   /\ f.foreground_colour =
                          ReplaceAlpha(rgb(DEFAULT_FOREGROUND_COLOUR), font_transparency)
                   /\ f.font_transparency = font_transparency
                   /\ BackgroundKept(f)
                   /\ b.background_colour =
                          ReplaceAlpha(rgb(DEFAULT_BACKGROUND_COLOUR), background_transparency)
                   /\ b.background_transparency = background_transparency
                   /\ ForegroundKept(b)

\* console.foreground_colour = (1, 2, 3) has returned on a console of which
\* font_transparency had been set to 9.
C34_Witness ==
    /\ Running
    /\ last_call = "foreground_colour"
    /\ font_transparency \in AssignedAlphas
    /\ foreground_colour = <<1, 2, 3>> \o <<font_transparency>>

(***************************************************************************)
(* Claims on the bytes write takes and the order it handles them in.       *)
(***************************************************************************)
InvalidBuffers == { b \in Utf8Buffers : FirstIllFormed(b) < Len(b) }

\* C35: written with a buffer that is not valid UTF-8, write leaves the
\* console, the decoder and the value returned as it does with the bytes
\* before the first invalid one alone; the bytes of a two-byte character
\* given to two calls, one each, leave everything as it was.
C35_InvalidBytesDropped ==
    Running =>
        /\ \A b \in InvalidBuffers :
               LET r == write(Con, b)
                   prefix == write(Con, SubSeq(b, 1, FirstIllFormed(b)))
               IN  SameDecoding(r, prefix) /\ r.ret = prefix.ret
        /\ LET first == write(Con, <<195>>)
               second == write(first, <<169>>)
           IN  /\ Ok(second)
               /\ first.ret = 0 /\ second.ret = 0
               /\ SameDecoding(first, Con) /\ SameDecoding(second, Con)

\* write(b"\xc3") has returned 0 on a console that holds text.
C35_Witness ==
    /\ Running
    /\ last_call = "write"
    /\ ret = 0
    /\ cursor > 0
    /\ presentation_stream[cursor] # NoneCell

\* The control functions written between two texts, the bytes of each and
\* the call of Console each stands for.
ControlFunctions == { "LF", "CR", "ED 2", "SU", "SGR 1" }

ControlBytes(function) ==
    IF function = "LF" THEN <<LF>>
    ELSE IF function = "CR" THEN <<CR>>
    ELSE IF function = "ED 2" THEN CsiSeq(Key1(2), 74)
    ELSE IF function = "SU" THEN CsiSeq(<<>>, 83)
    ELSE CsiSeq(Key1(1), 109)

ControlCall(c, function) ==
    IF function = "LF" THEN line_field(c)
    ELSE IF function = "CR" THEN carriage_return(c)
    ELSE IF function = "ED 2" THEN clear(c, "all_without_memory")
    ELSE IF function = "SU" THEN scroll(c, 1, TRUE)
    ELSE set_bold(c, TRUE)

OrderedTexts == { <<>>, <<97>>, <<97, 98>> }

\* C36: written to an idle decoder, text, a control function and more text
\* leave the console as the three calls do in that order: add_char of the
\* first text, the call the function stands for, add_char of the second; "ab"
\* CR "c" written at the start of a row of three cells or more leaves "c" in
\* its column 0 and "b" in its column 1.
C36_EffectsInByteOrder ==
    (Running /\ DecoderNormal(Con)) =>
        /\ \A before \in OrderedTexts, after \in OrderedTexts :
               \A function \in ControlFunctions :
                   SameConsole(write(Con, before \o ControlBytes(function) \o after),
                               Then(Then(add_char(Con, before),
                                         LAMBDA c1 : ControlCall(c1, function)),
                                    LAMBDA c2 : add_char(c2, after)))
        /\ (/\ width >= 3
            /\ cursor % width = 0
            /\ cursor < Len(presentation_stream)
            /\ start_window <= cursor
            /\ cursor + 1 <= end_window) =>
               LET r == write(Con, <<97, 98, CR, 99>>)
               IN  /\ Ok(r)
                   /\ r.presentation_stream[cursor + 1] = CharArgs(Con, 99)
                   /\ r.presentation_stream[cursor + 2] = CharArgs(Con, 98)
                   /\ r.cursor = cursor + 1

\* write(b"ab\rc") has returned: "c" and "b" in the first two cells, the
\* cursor after "c".
C36_Witness ==
    /\ Running
    /\ last_call = "write"
    /\ ret = 4
    /\ cursor = 1
    /\ presentation_stream[1] = CharArgs(Con, 99)
    /\ presentation_stream[2] = CharArgs(Con, 98)

(***************************************************************************)
(* Claims on the cursor and the window.                                    *)
(***************************************************************************)
\* memory_size is a multiple of width and the stream has not reached it.
BelowCapacity ==
    /\ char_memory_size % width = 0
    /\ Len(presentation_stream) < char_memory_size

InControlSequence(c) ==
    /\ Len(c.byte_esc_seq) >= 2
    /\ c.byte_esc_seq[1] = ESC
    /\ c.byte_esc_seq[2] = CSI
    /\ \A k \in 3..Len(c.byte_esc_seq) : c.byte_esc_seq[k] \notin FINAL_RANGE

\* LF, CR, ESC, TAB, "0", ";", " ", DEL and a two-byte character.
BytesOutsideFinalRange ==
    { <<LF>>, <<CR>>, <<ESC>>, <<9>>, <<48>>, <<59>>, <<32>>, <<127>>, <<195, 169>> }

\* C38: while ESC [ has been read and no byte of 0x40-0x7E after it, a byte
\* outside 0x40-0x7E, LF, CR and ESC included, is appended to the sequence
\* and the stream, the cursor, the window and the pen stay as they are.
C38_ControlSequenceSwallowsBytes ==
    (Running /\ InControlSequence(Con)) =>
        \A bytestream \in BytesOutsideFinalRange :
            LET r == write(Con, bytestream)
            IN  /\ Ok(r)
                /\ r.ret = Len(bytestream)
                /\ SameConsole(r, Con)
                /\ r.byte_esc_seq = byte_esc_seq \o bytestream
                /\ r.byte_displaying_char = byte_displaying_char
                /\ InControlSequence(r)

\* write(b"\x1b") has returned after ESC [ on a console that holds text: the
\* second ESC is the third byte of the sequence.
C38_Witness ==
    /\ Running
    /\ last_call = "write"
    /\ byte_esc_seq = <<ESC, CSI, ESC>>
    /\ cursor > 0
    /\ presentation_stream[cursor] # NoneCell

(***************************************************************************)
(* Claims on the callers of RawIOConsole.write.                            *)
(***************************************************************************)
\* C39: the loop that gives RawIOConsole.write the bytes it has not taken
\* yet comes to an end whatever the bytes: once bytes are in the buffer, the
\* buffer is empty at some later time, or an exception has left the loop.
C39_ResubmissionTerminates ==
    [](write_buf # <<>> => <>(write_buf = <<>> \/ ~Running))

(***************************************************************************)
(* Claims on the consoles Console.get_console hands out.                   *)
(***************************************************************************)
\* C40: every console get_console has returned had left _init_console when
\* it was returned: no caller that finds the name in Console._instances gets
\* the instance while its creator is between Console._instances[name] = self
\* and the end of _init_console.
C40_OnlyInitialisedHandedOut ==
    \A r \in returned : r.initialised

=============================================================================
